---- MODULE Spec2Model ----
(***************************************************************************)
(* Model of the content pipeline of data-ingestion-agent: the Cleaner      *)
(* (rag-pipeline/1.cleaning), the Chunker (rag-pipeline/2.chunking), the   *)
(* Embedding Writer (rag-pipeline/3.embedding) and the orchestrator        *)
(* (rag-pipeline/auto-pipeline.ts) over the persisted store.               *)
(*                                                                         *)
(* Text is modelled at token level.  A chat body is a sequence of          *)
(* whitespace-separated words, a file body a sequence of lines; every      *)
(* word or line is one of a few representative strings whose length and    *)
(* regular-expression class are those of the real string.                  *)
(***************************************************************************)
EXTENDS Integers, Sequences, FiniteSets, TLC

\* ------------------------------------------------------------------ bounds
\* Raw Records the producers append.
MaxRaw == 2
\* Kills of the process and rejected awaits, counted together.
MaxFaults == 1
\* Soft deletes.
MaxDeletes == 1
\* Raw Records in the store when a second orchestrator is started.
MaxShared == 1
\* Chunks in the store a search runs against, and the largest topK.
MaxStored == 3
\* Chat Chunks in the store of a search with topK up to the same number.
MaxChat == 5
\* Lines of a markdown file pushed to the repository.
MaxLines == 3
\* Words of a posted chat message.
MaxWords == 3
\* Repetitions of one line in a pushed code file made of two runs of lines.
MaxRun == 11

\* ------------------------------------------------------- program constants
POLL_INTERVAL_MS == 10000
PENALTY_MS == 30000
BATCH_SIZE == 50
EMBED_BATCH_SIZE == 100
MIN_DISCORD_LEN == 3
MIN_GITHUB_LEN == 10
MAX_CHUNK_TOKENS == 800
MIN_SPLIT_LINES == 10
PREVIEW_LEN == 200

NULL == "null"
NoLimit == 0

\* ------------------------------------------------------------ text helpers
Min(a, b) == IF a < b THEN a ELSE b

RECURSIVE SumSeq(_)
SumSeq(s) == IF s = <<>> THEN 0 ELSE Head(s) + SumSeq(Tail(s))

RECURSIVE FilterSeq(_, _)
FilterSeq(s, keep) ==
  IF s = <<>> THEN <<>>
  ELSE IF Head(s) \in keep THEN <<Head(s)>> \o FilterSeq(Tail(s), keep)
       ELSE FilterSeq(Tail(s), keep)

RECURSIVE MapSeq(_, _)
MapSeq(s, f) ==
  IF s = <<>> THEN <<>> ELSE <<f[Head(s)]>> \o MapSeq(Tail(s), f)

Take(s, n) == SubSeq(s, 1, Min(n, Len(s)))

\* Words of a chat body.  "hi" and "hello" are plain words, "<URL>" a word
\* matching urlRegex, "<CODE>" and "<CODE:py>" fenced blocks matching
\* codeBlockRegex, "<@1>" a user mention, "<:e:1>" a custom emoji.
ChatWords == {"hi", "hello", "<URL>", "<CODE>", "<CODE:py>", "<@1>", "<:e:1>"}

\* block.replace(/```\w*\n?/g, "").trim(): the body of each fenced block.
stripFence ==
  [b \in {"<CODE>", "<CODE:py>"} |->
     CASE b = "<CODE>" -> "code"
       [] b = "<CODE:py>" -> "print"]

\* Length in characters of a word of a cleaned chat body; "code" and "print"
\* are the bodies of the fenced blocks once their fences are stripped.
WordLen ==
  [w \in {"hi", "hello", "[URL]", "[CODE_BLOCK]", "@user", "code", "print"} |->
     CASE w = "hi" -> 2
       [] w = "code" -> 4
       [] w = "print" -> 5
       [] w = "hello" -> 5
       [] w = "[URL]" -> 5
       [] w = "[CODE_BLOCK]" -> 12
       [] w = "@user" -> 5]

\* Lines of a file body.  "" is an empty line, " " a line of blanks only, "x"
\* a one-character line, "plain text" a line of prose, "function f" a line
\* matching functionRegex, "// note" a line comment; "# Doc", "## Title" and
\* "## Usage" are lines matching headerRegex; "long line" is a line of 300
\* characters and "huge line" one of 3300 characters, neither a declaration.
FileLines ==
  {"", " ", "x", "plain text", "function f", "# Doc", "## Title", "## Usage",
   "// note", "long line", "huge line"}

\* headerRegex = /^(#{1,6})\s+(.+)$/gm: match[2] of the lines that match.
HeaderText ==
  [l \in {"# Doc", "## Title", "## Usage"} |->
     CASE l = "# Doc" -> "Doc"
       [] l = "## Title" -> "Title"
       [] l = "## Usage" -> "Usage"]

\* `# ${section.header}`, the heading line chunkMarkdownFile writes.
HeadingLine ==
  [h \in {"Doc", "Title", "Usage"} |->
     CASE h = "Doc" -> "# Doc"
       [] h = "Title" -> "# Title"
       [] h = "Usage" -> "# Usage"]

LineLen ==
  [l \in FileLines \cup {"# Title", "# Usage"} |->
     CASE l = "" -> 0
       [] l = " " -> 1
       [] l = "x" -> 1
       [] l = "plain text" -> 10
       [] l = "long line" -> 300
       [] l = "huge line" -> 3300
       [] l = "function f" -> 10
       [] l = "# Doc" -> 5
       [] l = "## Title" -> 8
       [] l = "## Usage" -> 8
       [] l = "# Title" -> 7
       [] l = "# Usage" -> 7
       [] l = "// note" -> 7]

\* Length of lines joined by a separator of sepLen characters.
JoinLen(lens, sepLen) ==
  IF lens = <<>> THEN 0 ELSE SumSeq(lens) + sepLen * (Len(lens) - 1)

TextLen(lines) == JoinLen(MapSeq(lines, LineLen), 1)

IsBlank(l) == l \in {"", " "}

RECURSIVE TrimLeft(_)
TrimLeft(lines) ==
  IF lines = <<>> THEN <<>>
  ELSE IF IsBlank(Head(lines)) THEN TrimLeft(Tail(lines)) ELSE lines

RECURSIVE TrimRight(_)
TrimRight(lines) ==
  IF lines = <<>> THEN <<>>
  ELSE IF IsBlank(lines[Len(lines)])
       THEN TrimRight(SubSeq(lines, 1, Len(lines) - 1))
       ELSE lines

\* String.prototype.trim: leading and trailing white space goes, and with it
\* every leading and trailing line that holds nothing else.
Trim(lines) == TrimRight(TrimLeft(lines))

\* ----------------------------------------------------------------- cleaner
\* content.replace(/\n{3,}/g, "\n\n"): a run of two or more empty lines
\* becomes one empty line (a run at either end of the text is trimmed
\* afterwards).
RECURSIVE CollapseBlank(_)
CollapseBlank(lines) ==
  IF Len(lines) < 2 THEN lines
  ELSE IF lines[1] = "" /\ lines[2] = "" THEN CollapseBlank(Tail(lines))
       ELSE <<Head(lines)>> \o CollapseBlank(Tail(lines))

\* content.replace(/\/\/.*$/gm, ""): a line comment is emptied.
StripComments(lines) ==
  [i \in 1..Len(lines) |-> IF lines[i] = "// note" THEN "" ELSE lines[i]]

\* content.replace(/[ \t]+$/gm, ""): trailing blanks of every line go.
StripTrailing(lines) ==
  [i \in 1..Len(lines) |-> IF lines[i] = " " THEN "" ELSE lines[i]]

\* The replacements of cleanDiscordData applied to one word.
CleanWord ==
  [w \in ChatWords |->
     CASE w \in DOMAIN stripFence -> "[CODE_BLOCK]"
       [] w = "<URL>" -> "[URL]"
       [] w = "<@1>" -> "@user"
       [] w = "<:e:1>" -> ""
       [] OTHER -> w]

\* The cleaners return <<>> for null and <<c>> for the cleaned value c; an
\* absent sections list is the empty list, which the chunker treats alike.
\* A content that is no string (contentType "number") makes content.match or
\* content.replace throw a TypeError inside the try block, and the catch block
\* returns null; a missing content is the empty string.
cleanDiscordData(rawData) ==
  LET caught == rawData.contentType = "number"
      urls == FilterSeq(rawData.content, {"<URL>"})
      codeBlocks == FilterSeq(rawData.content, DOMAIN stripFence)
      cleanedContent ==
        FilterSeq(MapSeq(rawData.content, CleanWord),
                  {"hi", "hello", "[URL]", "[CODE_BLOCK]", "@user"})
      length == JoinLen(MapSeq(cleanedContent, WordLen), 1)
  IN IF caught \/ length < MIN_DISCORD_LEN
        \/ cleanedContent = <<"[CODE_BLOCK]">> \/ cleanedContent = <<"[URL]">>
     THEN <<>>
     ELSE <<[content |-> cleanedContent,
             username |-> IF rawData.username = NULL THEN "unknown"
                          ELSE rawData.username,
             timestamp |-> IF rawData.timestamp = NULL THEN "now"
                           ELSE rawData.timestamp,
             urls |-> urls,
             codeBlocks |-> MapSeq(codeBlocks, stripFence),
             filename |-> NULL, fileType |-> NULL, isCode |-> FALSE,
             language |-> NULL, sections |-> <<>>]>>

\* Index of the next header line after position i, or Len + 1.
RECURSIVE NextHeader(_, _)
NextHeader(lines, i) ==
  IF i > Len(lines) THEN i
  ELSE IF lines[i] \in DOMAIN HeaderText THEN i ELSE NextHeader(lines, i + 1)

RECURSIVE ParseSections(_, _)
ParseSections(lines, i) ==
  LET h == NextHeader(lines, i)
  IN IF h > Len(lines) THEN <<>>
     ELSE LET n == NextHeader(lines, h + 1)
          IN <<[header |-> HeaderText[lines[h]],
                content |-> Trim(SubSeq(lines, h + 1, n - 1))]>>
             \o ParseSections(lines, n)

\* filename.split(".").pop().toLowerCase()
Extension ==
  [f \in {"a.ts", "README.md", "notes.txt", "unknown"} |->
     CASE f = "a.ts" -> "ts"
       [] f = "README.md" -> "md"
       [] f = "notes.txt" -> "txt"
       [] f = "unknown" -> "unknown"]

codeExtensions == {"ts", "js", "py", "java", "cpp", "c", "go", "rs", "rb", "php"}

cleanGithubData(rawData) ==
  LET caught == rawData.contentType = "number"
      filename == IF rawData.filename = NULL THEN "unknown" ELSE rawData.filename
      extension == Extension[filename]
      isCode == extension \in codeExtensions
      sections == IF extension = "md" THEN ParseSections(rawData.content, 1)
                  ELSE <<>>
      stripped == IF isCode THEN CollapseBlank(StripComments(rawData.content))
                  ELSE rawData.content
      content == Trim(StripTrailing(stripped))
  IN IF caught \/ TextLen(content) < MIN_GITHUB_LEN
     THEN <<>>
     ELSE <<[content |-> content,
             username |-> NULL,
             timestamp |-> "now",
             urls |-> <<>>,
             codeBlocks |-> <<>>,
             filename |-> filename,
             fileType |-> IF extension = "md" THEN "markdown"
                          ELSE IF isCode THEN "code" ELSE "text",
             isCode |-> isCode,
             language |-> IF isCode THEN extension ELSE NULL,
             sections |-> sections]>>

\* ----------------------------------------------------------------- chunker
estimateTokens(length) == (length + 3) \div 4

\* The preview `text.slice(0, 200)...` of a context string: the text it is
\* cut from and the number of its characters that are kept.
Preview(text, length) ==
  [text |-> text, kept |-> Min(length, PREVIEW_LEN), ellipsis |-> TRUE]

ChunkData(content, idx, length, type, ctx, fn, hp, parts) ==
  [content |-> content, chunkIndex |-> idx,
   tokenCount |-> estimateTokens(length), chunkType |-> type,
   contextMetadata |-> ctx, functionName |-> fn, headerPath |-> hp,
   participants |-> parts]

\* chunkDiscordMessages writing a code chunk for the first code block only.
chunkDiscordMessagesFirstBlock(record) ==
  LET mainLen == JoinLen(MapSeq(record.cleanedContent, WordLen), 1)
      main == ChunkData(record.cleanedContent, 0, mainLen, "discord_message",
                        [label |-> "Discord message", text |-> record.cleanedContent,
                         kept |-> mainLen, ellipsis |-> FALSE],
                        NULL, NULL, <<record.username>>)
      code(idx) ==
        LET b == record.codeBlocks[idx]
        IN ChunkData(<<b>>, idx, WordLen[b], "discord_code_block",
                     [label |-> "Code block", text |-> <<b>>,
                      kept |-> WordLen[b], ellipsis |-> FALSE],
                     NULL, NULL, <<record.username>>)
  IN <<main>> \o [idx \in 1..Min(1, Len(record.codeBlocks)) |-> code(idx)]

\* chunkDiscordMessages on one record: the message chunk, then one chunk per
\* code block.
chunkDiscordMessages(record) ==
  LET mainLen == JoinLen(MapSeq(record.cleanedContent, WordLen), 1)
      main == ChunkData(record.cleanedContent, 0, mainLen, "discord_message",
                        [label |-> "Discord message", text |-> record.cleanedContent,
                         kept |-> mainLen, ellipsis |-> FALSE],
                        NULL, NULL, <<record.username>>)
      code(idx) ==
        LET b == record.codeBlocks[idx]
        IN ChunkData(<<b>>, idx, WordLen[b], "discord_code_block",
                     [label |-> "Code block", text |-> <<b>>,
                      kept |-> WordLen[b], ellipsis |-> FALSE],
                     NULL, NULL, <<record.username>>)
  IN <<main>> \o [idx \in 1..Len(record.codeBlocks) |-> code(idx)]

\* CodeStep with a forced split on the token estimate alone.
CodeStepTokensOnly(st, line) ==
  LET functionMatch == line = "function f"
      closed ==
        IF functionMatch /\ st.currentChunk # <<>>
        THEN [chunks |-> Append(st.chunks,
                ChunkData(st.currentChunk, st.chunkIndex, TextLen(st.currentChunk),
                          "code_function",
                          [label |-> "Function"] @@
                            Preview(st.currentChunk, TextLen(st.currentChunk)),
                          st.currentFunctionName, NULL, <<>>)),
              currentChunk |-> <<line>>,
              currentFunctionName |-> line,
              chunkIndex |-> st.chunkIndex + 1]
        ELSE [st EXCEPT !.currentChunk = Append(@, line),
                        !.currentFunctionName =
                          IF @ = "" /\ functionMatch THEN line ELSE @]
  IN IF estimateTokens(TextLen(closed.currentChunk)) > MAX_CHUNK_TOKENS
     THEN [chunks |-> Append(closed.chunks,
             ChunkData(closed.currentChunk, closed.chunkIndex,
                       TextLen(closed.currentChunk), "code_block",
                       [label |-> "Code section"] @@
                         Preview(closed.currentChunk, TextLen(closed.currentChunk)),
                       NULL, NULL, <<>>)),
           currentChunk |-> <<>>,
           currentFunctionName |-> "",
           chunkIndex |-> closed.chunkIndex + 1]
     ELSE closed

\* One iteration of the line loop of chunkCodeFile on line `line`; st holds
\* chunks, currentChunk, currentFunctionName and chunkIndex.
CodeStep(st, line) ==
  LET functionMatch == line = "function f"
      closed ==
        IF functionMatch /\ st.currentChunk # <<>>
        THEN [chunks |-> Append(st.chunks,
                ChunkData(st.currentChunk, st.chunkIndex, TextLen(st.currentChunk),
                          "code_function",
                          [label |-> "Function"] @@
                            Preview(st.currentChunk, TextLen(st.currentChunk)),
                          st.currentFunctionName, NULL, <<>>)),
              currentChunk |-> <<line>>,
              currentFunctionName |-> line,
              chunkIndex |-> st.chunkIndex + 1]
        ELSE [st EXCEPT !.currentChunk = Append(@, line),
                        !.currentFunctionName =
                          IF @ = "" /\ functionMatch THEN line ELSE @]
  IN IF estimateTokens(TextLen(closed.currentChunk)) > MAX_CHUNK_TOKENS
        /\ Len(closed.currentChunk) > MIN_SPLIT_LINES
     THEN [chunks |-> Append(closed.chunks,
             ChunkData(closed.currentChunk, closed.chunkIndex,
                       TextLen(closed.currentChunk), "code_block",
                       [label |-> "Code section"] @@
                         Preview(closed.currentChunk, TextLen(closed.currentChunk)),
                       NULL, NULL, <<>>)),
           currentChunk |-> <<>>,
           currentFunctionName |-> "",
           chunkIndex |-> closed.chunkIndex + 1]
     ELSE closed

\* The line loop of chunkCodeFile; the state after a line is computed before
\* the next line is read (its chunkIndex is never negative).
RECURSIVE CodeScan(_, _)
CodeScan(st, lines) ==
  IF lines = <<>> THEN st
  ELSE LET next == CodeStep(st, Head(lines))
       IN IF next.chunkIndex >= 0 THEN CodeScan(next, Tail(lines)) ELSE next

chunkCodeFile(content) ==
  LET st == CodeScan([chunks |-> <<>>, currentChunk |-> <<>>,
                      currentFunctionName |-> "", chunkIndex |-> 0], content)
  IN IF st.currentChunk # <<>>
     THEN Append(st.chunks,
            ChunkData(st.currentChunk, st.chunkIndex, TextLen(st.currentChunk),
                      IF st.currentFunctionName # "" THEN "code_function"
                      ELSE "code_block",
                      [label |-> IF st.currentFunctionName # "" THEN "Function"
                                 ELSE "Code section"] @@
                        Preview(st.currentChunk, TextLen(st.currentChunk)),
                      IF st.currentFunctionName # "" THEN st.currentFunctionName
                      ELSE NULL,
                      NULL, <<>>))
     ELSE st.chunks

\* content.split(/\n\n+/).filter(p => p.trim().length > 0): the maximal runs
\* of non-empty lines.
RECURSIVE Paragraphs(_, _)
Paragraphs(lines, cur) ==
  IF lines = <<>> THEN (IF cur = <<>> THEN <<>> ELSE <<cur>>)
  ELSE IF Head(lines) = ""
       THEN (IF cur = <<>> THEN <<>> ELSE <<cur>>) \o Paragraphs(Tail(lines), <<>>)
       ELSE Paragraphs(Tail(lines), Append(cur, Head(lines)))

\* currentChunk.join("\n\n")
RECURSIVE JoinParas(_)
JoinParas(paras) ==
  IF paras = <<>> THEN <<>>
  ELSE IF Len(paras) = 1 THEN paras[1]
       ELSE paras[1] \o <<"">> \o JoinParas(Tail(paras))

ParagraphChunk(paras, idx) ==
  LET chunkContent == JoinParas(paras)
  IN ChunkData(chunkContent, idx, TextLen(chunkContent), "markdown_paragraph",
               [label |-> "Text"] @@ Preview(chunkContent, TextLen(chunkContent)),
               NULL, NULL, <<>>)

RECURSIVE ParaScan(_, _)
ParaScan(st, paras) ==
  IF paras = <<>> THEN st
  ELSE LET cur == Append(st.currentChunk, Head(paras))
       IN IF estimateTokens(TextLen(JoinParas(cur))) > MAX_CHUNK_TOKENS
          THEN ParaScan([chunks |-> Append(st.chunks, ParagraphChunk(cur, st.chunkIndex)),
                         currentChunk |-> <<>>,
                         chunkIndex |-> st.chunkIndex + 1], Tail(paras))
          ELSE ParaScan([st EXCEPT !.currentChunk = cur], Tail(paras))

\* chunkMarkdownFile without the paragraph fallback.
chunkMarkdownFileNoFallback(content, sections) ==
  [idx \in 1..Len(sections) |->
     LET fullContent == <<HeadingLine[sections[idx].header], "">>
                               \o sections[idx].content
     IN ChunkData(fullContent, idx - 1, TextLen(fullContent), "markdown_section",
                  [label |-> "Markdown section"] @@
                    Preview(fullContent, TextLen(fullContent)),
                  NULL, sections[idx].header, <<>>)]

\* chunkMarkdownFile writing a Chunk only for the sections that have a body.
chunkMarkdownFileSkipsEmpty(content, sections) ==
  LET kept == SelectSeq(sections, LAMBDA x : x.content # <<>>)
  IN [idx \in 1..Len(kept) |->
        LET fullContent == <<HeadingLine[kept[idx].header], "">>
                             \o kept[idx].content
        IN ChunkData(fullContent, idx - 1, TextLen(fullContent), "markdown_section",
                     [label |-> "Markdown section"] @@
                       Preview(fullContent, TextLen(fullContent)),
                     NULL, kept[idx].header, <<>>)]

\* chunkMarkdownFile: one Chunk per section, or the paragraph fallback.
chunkMarkdownFile(content, sections) ==
  IF Len(sections) > 0
  THEN [idx \in 1..Len(sections) |->
          LET fullContent == <<HeadingLine[sections[idx].header], "">>
                               \o sections[idx].content
          IN ChunkData(fullContent, idx - 1, TextLen(fullContent), "markdown_section",
                       [label |-> "Markdown section"] @@
                         Preview(fullContent, TextLen(fullContent)),
                       NULL, sections[idx].header, <<>>)]
  ELSE LET st == ParaScan([chunks |-> <<>>, currentChunk |-> <<>>, chunkIndex |-> 0],
                          Paragraphs(content, <<>>))
       IN IF st.currentChunk # <<>>
          THEN Append(st.chunks, ParagraphChunk(st.currentChunk, st.chunkIndex))
          ELSE st.chunks

\* The generic text branch of processUnchunkedData: one chunk per paragraph.
chunkTextFile(content) ==
  LET paragraphs == Paragraphs(content, <<>>)
  IN [idx \in 1..Len(paragraphs) |->
        ChunkData(paragraphs[idx], idx - 1, TextLen(paragraphs[idx]), "text_block",
                  [label |-> "Text"] @@
                    Preview(paragraphs[idx], TextLen(paragraphs[idx])),
                  NULL, NULL, <<>>)]

\* The dispatch of processUnchunkedData on one Cleaned Record.
ChunksOf(record) ==
  IF record.source = "Discord" THEN chunkDiscordMessages(record)
  ELSE IF record.isCode /\ record.language # NULL
       THEN chunkCodeFile(record.cleanedContent)
       ELSE IF record.fileType = "markdown"
            THEN chunkMarkdownFile(record.cleanedContent, record.sections)
            ELSE chunkTextFile(record.cleanedContent)

\* ------------------------------------------------------------------ inputs
\* What the chat listener can store: the body of a message.
DiscordContents ==
  { <<"hello", "<@1>", "<URL>", "<CODE>">>,
    <<"hi">> }

\* What the webhook listener can store: a file path and the file's text.
\* The specifications that kill the process or make a write fail at any point
\* take their files from CodeAndSections, the others from GithubFiles.
CodeAndSections ==
  { [filename |-> "a.ts", content |-> <<"// note", "function f", "x", "function f">>],
    [filename |-> "README.md", content |-> <<"## Title", "plain text">>] }

GithubFiles ==
  CodeAndSections \cup
  { [filename |-> "README.md", content |-> <<"plain text">>],
    [filename |-> "notes.txt", content |-> <<"plain text", " ", "x">>] }

\* ------------------------------------------------------------------- state
VARIABLES
  raw,        \* table Data, in creation order
  cleaned,    \* table CleanedData, in creation order
  chunks,     \* table Chunk, in creation order
  pc,         \* where the pipeline process stands
  mode,       \* "tick": inside AutoPipeline.start; "call": a direct call of a stage
  stage,      \* the stage being run
  loc,        \* the locals of the running stage
  ret,        \* the value the last completed stage reported
  processedCount, \* AutoPipeline.processedCount
  wait,       \* the duration of the sleep the loop is in
  crashes,    \* kills of the process so far
  failures,   \* awaits that rejected so far
  deletes,    \* soft deletes so far
  sel,        \* the current pass: whether it took every eligible row, whether
              \* it repeats the pass just completed, and the store it then
              \* started from
  chunkDone,  \* the Cleaned Records selected by completed Chunker passes
  peer,       \* a second orchestrator process on the same store: where it
              \* stands and the locals of its running stage
  search,     \* the last call of searchSimilar: its arguments and what it
              \* returned
  env,        \* process.env of the process being started
  answer      \* what RAGQuery.query returned, and the calls of the text
              \* generator it made

vars == <<raw, cleaned, chunks, pc, mode, stage, loc, ret, processedCount, wait,
          crashes, failures, deletes, sel, chunkDone, peer, search, env, answer>>

store == <<raw, cleaned, chunks>>

Stages == {"clean", "chunk", "embed"}

NoLoc == [limit |-> NoLimit, batch |-> <<>>, i |-> 0, k |-> 0, count |-> 0,
          embeddings |-> <<>>, found |-> 0]

\* The second orchestrator is not running.
NoPeer == [pc |-> "off", stage |-> "none", batch |-> <<>>, i |-> 0, k |-> 0,
           embeddings |-> <<>>]

\* The environment with the provider credential set.
WithKey == [GEMINI_API_KEY |-> "key"]

\* RAGQuery.query has not been called.
NoAnswer == [asked |-> FALSE, answer |-> [kind |-> "none"], sources |-> <<>>,
             invoked |-> 0]

\* searchSimilar has not been called.
NoSearch == [query |-> 0, topK |-> 0, source |-> NULL, results |-> <<>>]

NoSel == [again |-> FALSE, snap |-> <<>>, exh |-> FALSE, prevExh |-> FALSE,
          dirty |-> FALSE]

Ids(n) == [j \in 1..n |-> j]

\* ------------------------------------------------------ selection predicates
\* CleanEligible with the filter on the processed flag left out.
CleanEligibleNoFlag ==
  SelectSeq(Ids(Len(raw)), LAMBDA j : raw[j].deletedAt = NULL)

\* CleanEligible with the filter on the soft-delete marker left out.
CleanEligibleDeleted ==
  SelectSeq(Ids(Len(raw)), LAMBDA j : ~raw[j].processed)

\* where: { processed: false, deletedAt: null }, orderBy createdAt asc
CleanEligible ==
  SelectSeq(Ids(Len(raw)), LAMBDA j : ~raw[j].processed /\ raw[j].deletedAt = NULL)

ChunksOfRecord(id) ==
  SelectSeq(Ids(Len(chunks)), LAMBDA c : chunks[c].cleanedDataId = id)

\* ChunkEligible with the filter on existing chunks left out.
ChunkEligibleAll == Ids(Len(cleaned))

\* where: { chunks: { none: {} } }, orderBy createdAt asc
ChunkEligible ==
  SelectSeq(Ids(Len(cleaned)), LAMBDA j : ChunksOfRecord(j) = <<>>)

\* EmbedEligible with the filter on embeddedAt left out.
EmbedEligibleAll == Ids(Len(chunks))

\* EmbedEligible with the filter put on the Cleaned Record, as the Chunker's
\* is: the chunks of the records that have no embedded chunk yet.
EmbedEligibleByRecord ==
  SelectSeq(Ids(Len(chunks)),
            LAMBDA c : \A d \in 1..Len(chunks) :
                         chunks[d].cleanedDataId = chunks[c].cleanedDataId
                           => chunks[d].embeddedAt = NULL)

\* where: { embeddedAt: null }, orderBy createdAt asc
EmbedEligible ==
  SelectSeq(Ids(Len(chunks)), LAMBDA c : chunks[c].embeddedAt = NULL)

Eligible(s) ==
  CASE s = "clean" -> CleanEligible
    [] s = "chunk" -> ChunkEligible
    [] s = "embed" -> EmbedEligible

\* TakeLimit keeping the last `limit` rows of the ordered rows, as a query
\* ordered by createdAt desc would select them.
TakeNewest(rows, limit) ==
  IF limit = NoLimit THEN rows
  ELSE SubSeq(rows, Len(rows) - Min(limit, Len(rows)) + 1, Len(rows))

\* findMany({ take: limit }); an absent limit takes every row.
TakeLimit(rows, limit) == IF limit = NoLimit THEN rows ELSE Take(rows, limit)

Init ==
  /\ raw = <<>> /\ cleaned = <<>> /\ chunks = <<>>
  /\ pc = "auto" /\ mode = "tick" /\ stage = "clean"
  /\ loc = NoLoc /\ ret = 0
  /\ processedCount = [cleaned |-> 0, chunked |-> 0, embedded |-> 0]
  /\ wait = 0
  /\ crashes = 0 /\ failures = 0 /\ deletes = 0
  /\ sel = NoSel
  /\ chunkDone = {}
  /\ peer = NoPeer
  /\ search = NoSearch
  /\ env = WithKey
  /\ answer = NoAnswer

\* ---------------------------------------------------------------- producers
NewRaw(source, data) ==
  /\ Len(raw) < MaxRaw
  /\ raw' = Append(raw, [source |-> source, data |-> data, processed |-> FALSE,
                         lastProcessedAt |-> NULL, deletedAt |-> NULL])
  /\ sel' = IF mode = "call"
            THEN [sel EXCEPT !.again = FALSE, !.snap = <<>>, !.dirty = TRUE]
            ELSE sel
  /\ UNCHANGED <<cleaned, chunks, pc, mode, stage, loc, ret, processedCount, wait,
                 crashes, failures, deletes, chunkDone, peer, search,
                 env, answer>>

\* discord-server.ts, client.on('messageCreate')
DiscordMessageCreate ==
  \E c \in DiscordContents :
    NewRaw("Discord", [content |-> c, contentType |-> "string",
                       username |-> "alice",
                       timestamp |-> "2026-01-27T07:10:21.000Z", filename |-> NULL])

\* github-server.ts, app.post("/github")
GithubWebhook(files) ==
  \E f \in files :
    NewRaw("Github", [content |-> f.content, contentType |-> "string",
                      username |-> NULL, timestamp |-> NULL,
                      filename |-> f.filename])

\* An external collaborator sets the soft-delete marker of a Raw Record.
SoftDelete ==
  \E j \in 1..Len(raw) :
    /\ deletes < MaxDeletes
    /\ raw[j].deletedAt = NULL
    /\ raw' = [raw EXCEPT ![j].deletedAt = "now"]
    /\ deletes' = deletes + 1
    /\ sel' = [sel EXCEPT !.again = FALSE, !.snap = <<>>]
    /\ UNCHANGED <<cleaned, chunks, pc, mode, stage, loc, ret, processedCount, wait,
                   crashes, failures, chunkDone, peer, search, env, answer>>

\* ------------------------------------------------------------ the pipeline
ENABLE_AUTO_CLEANING == TRUE
ENABLE_AUTO_CHUNKING == TRUE
ENABLE_AUTO_EMBEDDING == TRUE

\* The limits a direct call of a stage passes: none, or one row.
Limits == {NoLimit, 1}

SeqToSet(q) == {q[j] : j \in 1..Len(q)}

\* The selection a pass starts with: whether it took every eligible row.
BeginPass(s, rows) ==
  sel' = [sel EXCEPT !.exh = Len(rows) = Len(Eligible(s)), !.dirty = FALSE]

\* record.source === "Discord" ? cleanDiscordData(rawData) : cleanGithubData(rawData)
Clean(record) ==
  IF record.source = "Discord" THEN cleanDiscordData(record.data)
  ELSE cleanGithubData(record.data)

\* CleanSkip leaving the loop at the first record whose cleaning returned null.
CleanSkipBreak(batch, i) ==
  IF i > Len(batch) THEN i
  ELSE IF Clean(raw[batch[i]]) # <<>> THEN i ELSE Len(batch) + 1

\* The loop of processUncleanedData passes over a record whose cleaning
\* returned null without any store access: the next record at or after
\* position i that is cleaned.
RECURSIVE CleanSkip(_, _)
CleanSkip(batch, i) ==
  IF i > Len(batch) THEN i
  ELSE IF Clean(raw[batch[i]]) # <<>> THEN i ELSE CleanSkip(batch, i + 1)

\* CleanSelect reporting the number of rows found when none is cleaned.
CleanSelectCountsRows ==
  /\ pc = "select" /\ stage = "clean"
  /\ LET rows == TakeLimit(CleanEligible, loc.limit)
         first == CleanSkip(rows, 1)
     IN /\ BeginPass("clean", rows)
        /\ loc' = [loc EXCEPT !.batch = rows, !.i = first, !.count = 0]
        /\ IF first > Len(rows)
           THEN pc' = "return" /\ ret' = Len(rows)
           ELSE pc' = "clean_create" /\ ret' = ret
  /\ UNCHANGED <<raw, cleaned, chunks, mode, stage, processedCount, wait,
                 crashes, failures, deletes, chunkDone, peer, search,
                 env, answer>>

\* processUncleanedData: findMany, and the loop up to the first create.
CleanSelect ==
  /\ pc = "select" /\ stage = "clean"
  /\ \E rows \in {TakeLimit(CleanEligible, loc.limit)} :
     \E first \in {CleanSkip(rows, 1)} :
        /\ BeginPass("clean", rows)
        /\ loc' = [loc EXCEPT !.batch = rows, !.i = first, !.count = 0]
        /\ IF first > Len(rows)
           THEN pc' = "return" /\ ret' = 0
           ELSE pc' = "clean_create" /\ ret' = ret
  /\ UNCHANGED <<raw, cleaned, chunks, mode, stage, processedCount, wait,
                 crashes, failures, deletes, chunkDone, peer, search,
                 env, answer>>

\* new Date(timestamp): the instant an ISO string names, or Invalid Date.
ValidTimestamps == {"2026-01-27T07:10:21.000Z", "now"}

InvalidDate == "Invalid Date"

ParseDate(timestamp) ==
  IF timestamp \in ValidTimestamps THEN timestamp ELSE InvalidDate

\* processUncleanedData: prisma.cleanedData.create.  The create rejects a
\* timestamp that is an Invalid Date; nothing in processUncleanedData catches
\* the rejection, so it leaves the pass as a stage exception does.
CleanCreate ==
  /\ pc = "clean_create"
  /\ \E id \in {loc.batch[loc.i]} : \E c \in {Clean(raw[id])[1]} :
        IF ParseDate(c.timestamp) = InvalidDate
        THEN /\ pc' = "sleep" /\ stage' = "none" /\ mode' = "tick"
             /\ wait' = IF mode = "tick" THEN PENALTY_MS ELSE wait
             /\ loc' = NoLoc /\ sel' = NoSel
             /\ UNCHANGED cleaned
        ELSE /\ cleaned' = Append(cleaned,
                  [dataId |-> id, source |-> raw[id].source,
                   cleanedContent |-> c.content,
                   timestamp |-> ParseDate(c.timestamp), username |-> c.username,
                   urls |-> c.urls, codeBlocks |-> c.codeBlocks,
                   filename |-> c.filename, fileType |-> c.fileType,
                   isCode |-> c.isCode, language |-> c.language,
                   sections |-> c.sections])
             /\ pc' = "clean_mark"
             /\ UNCHANGED <<mode, stage, loc, wait, sel>>
  /\ UNCHANGED <<raw, chunks, ret, processedCount, crashes, failures, deletes,
                 chunkDone, peer, search, env, answer>>

\* CleanMark with an update that stamps lastProcessedAt and leaves the
\* processed flag as it was.
CleanMarkKeepsFlag ==
  /\ pc = "clean_mark"
  /\ LET id == loc.batch[loc.i]
         next == CleanSkip(loc.batch, loc.i + 1)
     IN /\ raw' = [raw EXCEPT ![id].lastProcessedAt = "now"]
        /\ loc' = [loc EXCEPT !.i = next, !.count = @ + 1]
        /\ IF next > Len(loc.batch)
           THEN pc' = "return" /\ ret' = loc.count + 1
           ELSE pc' = "clean_create" /\ ret' = ret
  /\ UNCHANGED <<cleaned, chunks, mode, stage, processedCount, wait,
                 crashes, failures, deletes, sel, chunkDone, peer, search,
                 env, answer>>

\* CleanMark with an update that also stores the cleaned text in the payload
\* of the Raw Record.
CleanMarkStoresText ==
  /\ pc = "clean_mark"
  /\ LET id == loc.batch[loc.i]
         next == CleanSkip(loc.batch, loc.i + 1)
     IN /\ raw' = [raw EXCEPT ![id].processed = TRUE, ![id].lastProcessedAt = "now",
                              ![id].data.content = Clean(raw[id])[1].content]
        /\ loc' = [loc EXCEPT !.i = next, !.count = @ + 1]
        /\ IF next > Len(loc.batch)
           THEN pc' = "return" /\ ret' = loc.count + 1
           ELSE pc' = "clean_create" /\ ret' = ret
  /\ UNCHANGED <<cleaned, chunks, mode, stage, processedCount, wait,
                 crashes, failures, deletes, sel, chunkDone, peer, search,
                 env, answer>>

\* processUncleanedData: prisma.data.update, processedCount++, and the loop up
\* to the next create or the return.
CleanMark ==
  /\ pc = "clean_mark"
  /\ LET id == loc.batch[loc.i]
         next == CleanSkip(loc.batch, loc.i + 1)
     IN /\ raw' = [raw EXCEPT ![id].processed = TRUE, ![id].lastProcessedAt = "now"]
        /\ loc' = [loc EXCEPT !.i = next, !.count = @ + 1]
        /\ IF next > Len(loc.batch)
           THEN pc' = "return" /\ ret' = loc.count + 1
           ELSE pc' = "clean_create" /\ ret' = ret
  /\ UNCHANGED <<cleaned, chunks, mode, stage, processedCount, wait,
                 crashes, failures, deletes, sel, chunkDone, peer, search,
                 env, answer>>

\* The loop of processUnchunkedData counts a record that yields no chunk and
\* goes on without any store access: the next record at or after position i
\* that has a chunk to write.
RECURSIVE ChunkSkip(_, _)
ChunkSkip(batch, i) ==
  IF i > Len(batch) THEN i
  ELSE IF ChunksOf(cleaned[batch[i]]) # <<>> THEN i ELSE ChunkSkip(batch, i + 1)

\* processUnchunkedData: findMany, and the loop up to the first create.
ChunkSelect ==
  /\ pc = "select" /\ stage = "chunk"
  /\ LET rows == TakeLimit(ChunkEligible, loc.limit)
         first == ChunkSkip(rows, 1)
     IN /\ BeginPass("chunk", rows)
        /\ loc' = [loc EXCEPT !.batch = rows, !.i = first, !.k = 1,
                              !.count = first - 1]
        /\ IF first > Len(rows)
           THEN pc' = "return" /\ ret' = Len(rows)
           ELSE pc' = "chunk_write" /\ ret' = ret
  /\ UNCHANGED <<raw, cleaned, chunks, mode, stage, processedCount, wait,
                 crashes, failures, deletes, chunkDone, peer, search,
                 env, answer>>

\* processUnchunkedData: one prisma.chunk.create, and after the last chunk of
\* a record processedCount++ and the loop up to the next create or the return.
ChunkWrite ==
  /\ pc = "chunk_write"
  /\ LET id == loc.batch[loc.i]
         pending == ChunksOf(cleaned[id])
         next == ChunkSkip(loc.batch, loc.i + 1)
     IN /\ chunks' = Append(chunks,
             [cleanedDataId |-> id, source |-> cleaned[id].source,
              embedding |-> <<>>, embeddedAt |-> NULL, writes |-> 0]
             @@ pending[loc.k])
        /\ IF loc.k < Len(pending)
           THEN /\ loc' = [loc EXCEPT !.k = @ + 1]
                /\ pc' = pc /\ ret' = ret
           ELSE /\ loc' = [loc EXCEPT !.i = next, !.k = 1, !.count = next - 1]
                /\ IF next > Len(loc.batch)
                   THEN pc' = "return" /\ ret' = Len(loc.batch)
                   ELSE pc' = pc /\ ret' = ret
  /\ UNCHANGED <<raw, cleaned, mode, stage, processedCount, wait,
                 crashes, failures, deletes, sel, chunkDone, peer, search,
                 env, answer>>

\* The provider: embed(text, role) -> vector.
Embedding(text, taskType) == [of |-> text, taskType |-> taskType]

\* embedUnprocessedChunks: findMany and the contextMetadata of the rows.
EmbedSelect ==
  /\ pc = "select" /\ stage = "embed"
  /\ LET rows == TakeLimit(EmbedEligible, loc.limit)
     IN /\ BeginPass("embed", rows)
        /\ loc' = [loc EXCEPT !.batch = rows, !.i = 1, !.embeddings = <<>>]
        /\ IF rows = <<>>
           THEN pc' = "return" /\ ret' = 0
           ELSE pc' = "embed_call" /\ ret' = ret
  /\ UNCHANGED <<raw, cleaned, chunks, mode, stage, processedCount, wait,
                 crashes, failures, deletes, chunkDone, peer, search,
                 env, answer>>

\* EmbedCall taking the texts of every sub-batch from the start of the
\* selected rows.
EmbedCallFromStart ==
  /\ pc = "embed_call"
  /\ LET done == Len(loc.embeddings)
         upto == Min(done + EMBED_BATCH_SIZE, Len(loc.batch))
         batchEmbeddings ==
           [j \in 1..(upto - done) |->
              Embedding(chunks[loc.batch[j]].contextMetadata,
                        "RETRIEVAL_DOCUMENT")]
     IN /\ loc' = [loc EXCEPT !.embeddings = @ \o batchEmbeddings]
        /\ pc' = IF upto = Len(loc.batch) THEN "embed_write" ELSE pc
  /\ UNCHANGED <<raw, cleaned, chunks, mode, stage, ret, processedCount, wait,
                 crashes, failures, deletes, sel, chunkDone, peer, search,
                 env, answer>>

\* embedBatch: one batchEmbedContents call on the next EMBED_BATCH_SIZE texts.
EmbedCall ==
  /\ pc = "embed_call"
  /\ LET done == Len(loc.embeddings)
         upto == Min(done + EMBED_BATCH_SIZE, Len(loc.batch))
         batchEmbeddings ==
           [j \in 1..(upto - done) |->
              Embedding(chunks[loc.batch[done + j]].contextMetadata,
                        "RETRIEVAL_DOCUMENT")]
     IN /\ loc' = [loc EXCEPT !.embeddings = @ \o batchEmbeddings]
        /\ pc' = IF upto = Len(loc.batch) THEN "embed_write" ELSE pc
  /\ UNCHANGED <<raw, cleaned, chunks, mode, stage, ret, processedCount, wait,
                 crashes, failures, deletes, sel, chunkDone, peer, search,
                 env, answer>>

\* EmbedWrite with an UPDATE that sets the embedding column only.
EmbedWriteVectorOnly ==
  /\ pc = "embed_write"
  /\ LET id == loc.batch[loc.i]
     IN chunks' = [chunks EXCEPT ![id].embedding = <<loc.embeddings[loc.i]>>,
                                 ![id].writes = @ + 1]
  /\ loc' = [loc EXCEPT !.i = @ + 1]
  /\ IF loc.i = Len(loc.batch)
     THEN pc' = "return" /\ ret' = Len(loc.batch)
     ELSE pc' = pc /\ ret' = ret
  /\ UNCHANGED <<raw, cleaned, mode, stage, processedCount, wait,
                 crashes, failures, deletes, sel, chunkDone, peer, search,
                 env, answer>>

\* embedUnprocessedChunks: one UPDATE "Chunk" SET embedding, "embeddedAt".
EmbedWrite ==
  /\ pc = "embed_write"
  /\ LET id == loc.batch[loc.i]
     IN chunks' = [chunks EXCEPT ![id].embedding = <<loc.embeddings[loc.i]>>,
                                 ![id].embeddedAt = "now",
                                 ![id].writes = @ + 1]
  /\ loc' = [loc EXCEPT !.i = @ + 1]
  /\ IF loc.i = Len(loc.batch)
     THEN pc' = "return" /\ ret' = Len(loc.batch)
     ELSE pc' = pc /\ ret' = ret
  /\ UNCHANGED <<raw, cleaned, mode, stage, processedCount, wait,
                 crashes, failures, deletes, sel, chunkDone, peer, search,
                 env, answer>>

\* -------------------------------------------------------------- orchestrator
Enabled(s) ==
  CASE s = "clean" -> ENABLE_AUTO_CLEANING
    [] s = "chunk" -> ENABLE_AUTO_CHUNKING
    [] s = "embed" -> ENABLE_AUTO_EMBEDDING

\* AfterStage running the Embedding Writer before the Chunker.
AfterStageEmbedFirst(s) ==
  IF s = "chunk"
  THEN pc' = "sleep" /\ stage' = "none" /\ wait' = POLL_INTERVAL_MS
  ELSE pc' = "auto" /\ stage' = (IF s = "clean" THEN "embed" ELSE "chunk")
       /\ wait' = wait

\* The loop body of AutoPipeline.start after stage s: the next step, or the
\* poll sleep after the last one.
AfterStage(s) ==
  IF s = "embed"
  THEN pc' = "sleep" /\ stage' = "none" /\ wait' = POLL_INTERVAL_MS
  ELSE pc' = "auto" /\ stage' = (IF s = "clean" THEN "chunk" ELSE "embed")
       /\ wait' = wait

\* autoClean, autoChunk, autoEmbed up to the call of the stage: the rows found
\* with take: BATCH_SIZE, `return 0` when there is none, else the call.
AutoStage(s) ==
  /\ pc = "auto" /\ stage = s
  /\ LET found == Take(Eligible(s), BATCH_SIZE)
     IN IF ~Enabled(s) \/ found = <<>>
        THEN /\ AfterStage(s)
             /\ ret' = 0
             /\ loc' = NoLoc
        ELSE /\ pc' = "select"
             /\ loc' = [NoLoc EXCEPT !.limit = IF s = "embed" THEN BATCH_SIZE
                                               ELSE NoLimit,
                                     !.found = Len(found)]
             /\ UNCHANGED <<stage, ret, wait>>
  /\ UNCHANGED <<raw, cleaned, chunks, mode, processedCount, crashes,
                 failures, deletes, sel, chunkDone, peer, search,
                 env, answer>>

autoClean == AutoStage("clean")

autoChunk == AutoStage("chunk")

autoEmbed == AutoStage("embed")

\* The pass returns.  Inside a tick autoClean and autoChunk add the returned
\* count to processedCount, autoEmbed adds the number of rows it had found;
\* then the loop goes on.  A direct call returns to its caller.
Return ==
  /\ pc = "return"
  /\ chunkDone' = IF stage = "chunk" THEN chunkDone \cup SeqToSet(loc.batch)
                  ELSE chunkDone
  /\ sel' = NoSel
  /\ loc' = NoLoc
  /\ IF mode = "tick"
     THEN /\ processedCount' =
               CASE stage = "clean" -> [processedCount EXCEPT !.cleaned = @ + ret]
                 [] stage = "chunk" -> [processedCount EXCEPT !.chunked = @ + ret]
                 [] stage = "embed" -> [processedCount EXCEPT !.embedded = @ + loc.found]
          /\ AfterStage(stage)
          /\ mode' = mode
     ELSE /\ pc' = "sleep" /\ stage' = "none" /\ mode' = "tick"
          /\ UNCHANGED <<processedCount, wait>>
  /\ ret' = 0
  /\ UNCHANGED <<raw, cleaned, chunks, crashes, failures, deletes, peer, search, env, answer>>

\* The sleep of the loop ends and the next iteration of `while (this.isRunning)`
\* begins.
TickStart ==
  /\ pc = "sleep"
  /\ pc' = "auto" /\ stage' = "clean" /\ mode' = "tick"
  /\ wait' = 0
  /\ UNCHANGED <<raw, cleaned, chunks, loc, ret, processedCount, crashes,
                 failures, deletes, sel, chunkDone, peer, search,
                 env, answer>>

\* A direct call of an exported stage function while the loop sleeps:
\* processUncleanedData(limit), processUnchunkedData(limit),
\* embedUnprocessedChunks(limit).
Call ==
  \E s \in Stages, l \in Limits :
    /\ pc = "sleep"
    /\ pc' = "select" /\ stage' = s /\ mode' = "call"
    /\ loc' = [NoLoc EXCEPT !.limit = l]
    /\ UNCHANGED <<raw, cleaned, chunks, ret, processedCount, wait, crashes,
                   failures, deletes, sel, chunkDone, peer, search,
                   env, answer>>

\* The caller of a stage function calls it again, with the same limit, as soon
\* as it has returned, if no Raw Record arrived meanwhile.
Recall ==
  /\ pc = "return" /\ mode = "call"
  /\ ~sel.again /\ ~sel.dirty
  /\ pc' = "select"
  /\ loc' = [NoLoc EXCEPT !.limit = loc.limit]
  /\ sel' = [again |-> TRUE, snap |-> store, exh |-> FALSE, prevExh |-> sel.exh,
             dirty |-> FALSE]
  /\ chunkDone' = IF stage = "chunk" THEN chunkDone \cup SeqToSet(loc.batch)
                  ELSE chunkDone
  /\ ret' = 0
  /\ UNCHANGED <<raw, cleaned, chunks, mode, stage, processedCount, wait, crashes,
                 failures, deletes, peer, search, env, answer>>

\* The points of a pass at which a store write or a provider call is awaited.
AwaitPoints == {"clean_create", "clean_mark", "chunk_write", "embed_call", "embed_write"}

\* Throw with the try block around the loop instead of inside it: the
\* exception ends the loop and start() returns.
ThrowLeavesLoop ==
  /\ pc \in AwaitPoints
  /\ crashes + failures < MaxFaults
  /\ failures' = failures + 1
  /\ pc' = "returned"
  /\ stage' = "none"
  /\ wait' = wait
  /\ mode' = "tick"
  /\ loc' = NoLoc
  /\ sel' = NoSel
  /\ UNCHANGED <<raw, cleaned, chunks, ret, processedCount, crashes, deletes,
                 chunkDone, peer, search, env, answer>>

\* Throw with the catch block starting the totals again from 0.
ThrowResetsTotals ==
  /\ pc \in AwaitPoints
  /\ crashes + failures < MaxFaults
  /\ failures' = failures + 1
  /\ pc' = "sleep"
  /\ stage' = "none"
  /\ wait' = IF mode = "tick" THEN PENALTY_MS ELSE wait
  /\ mode' = "tick"
  /\ loc' = NoLoc
  /\ sel' = NoSel
  /\ processedCount' = [cleaned |-> 0, chunked |-> 0, embedded |-> 0]
  /\ UNCHANGED <<raw, cleaned, chunks, ret, crashes, deletes, chunkDone, peer, search, env, answer>>

\* The awaited write or provider call rejects, and takes no effect.  Inside a
\* tick the catch block of AutoPipeline.start logs the error and sleeps 30 s;
\* a direct call rejects to its caller.
Throw ==
  /\ pc \in AwaitPoints
  /\ crashes + failures < MaxFaults
  /\ failures' = failures + 1
  /\ pc' = "sleep"
  /\ stage' = "none"
  /\ wait' = IF mode = "tick" THEN PENALTY_MS ELSE wait
  /\ mode' = "tick"
  /\ loc' = NoLoc
  /\ sel' = NoSel
  /\ UNCHANGED <<raw, cleaned, chunks, ret, processedCount, crashes, deletes,
                 chunkDone, peer, search, env, answer>>

\* The process is killed and started again: main() builds a new AutoPipeline
\* and start() enters the loop; only the store survives.
Crash ==
  /\ crashes + failures < MaxFaults
  /\ crashes' = crashes + 1
  /\ pc' = "auto" /\ stage' = "clean" /\ mode' = "tick"
  /\ loc' = NoLoc /\ ret' = 0
  /\ processedCount' = [cleaned |-> 0, chunked |-> 0, embedded |-> 0]
  /\ wait' = 0
  /\ sel' = NoSel
  /\ UNCHANGED <<raw, cleaned, chunks, failures, deletes, chunkDone, peer, search, env, answer>>

\* The steps of the pipeline process inside the loop of AutoPipeline.start.
Worker ==
  \/ autoClean
  \/ autoChunk
  \/ autoEmbed
  \/ CleanSelect
  \/ CleanCreate
  \/ CleanMark
  \/ ChunkSelect
  \/ ChunkWrite
  \/ EmbedSelect
  \/ EmbedCall
  \/ EmbedWrite
  \/ Return
  \/ TickStart

\* The orchestrator with its producers, killed or failing at any point.
Next ==
  \/ DiscordMessageCreate
  \/ GithubWebhook(CodeAndSections)
  \/ autoClean
  \/ autoChunk
  \/ autoEmbed
  \/ CleanSelect
  \/ CleanCreate
  \/ CleanMark
  \/ ChunkSelect
  \/ ChunkWrite
  \/ EmbedSelect
  \/ EmbedCall
  \/ EmbedWrite
  \/ Return
  \/ TickStart
  \/ Throw
  \/ Crash

Spec == Init /\ [][Next]_vars

\* Every worker action is enabled by the position of the process alone and
\* moves pc or loc, so ENABLED <<Worker>>_vars is this predicate.
WorkerReady ==
  \/ pc \in {"auto", "select"} /\ stage \in Stages
  \/ pc \in {"clean_create", "clean_mark", "chunk_write", "embed_call",
             "embed_write", "return", "sleep"}

\* WF_vars(Worker) written out by its definition: the event loop runs a
\* callback that is ready, so a process that stays able to take its next step
\* takes it.
WorkerFairness == <>[]WorkerReady => []<><<Worker>>_vars

\* The orchestrator with its producers and soft deletes, no stage failing and
\* the process never killed; the loop keeps running.
FlowNext ==
  \/ DiscordMessageCreate
  \/ GithubWebhook(GithubFiles)
  \/ SoftDelete
  \/ autoClean
  \/ autoChunk
  \/ autoEmbed
  \/ CleanSelect
  \/ CleanCreate
  \/ CleanMark
  \/ ChunkSelect
  \/ ChunkWrite
  \/ EmbedSelect
  \/ EmbedCall
  \/ EmbedWrite
  \/ Return
  \/ TickStart

FlowSpec == Init /\ [][FlowNext]_vars /\ WorkerFairness

\* The process is killed inside the write loop of embedUnprocessedChunks.
CrashInWriteLoop == pc = "embed_write" /\ Crash

\* The orchestrator with its producers, killed inside the write loop of the
\* Embedding Writer and started again; the provider works and the loop keeps
\* running.
RecoverNext ==
  \/ DiscordMessageCreate
  \/ GithubWebhook(CodeAndSections)
  \/ autoClean
  \/ autoChunk
  \/ autoEmbed
  \/ CleanSelect
  \/ CleanCreate
  \/ CleanMark
  \/ ChunkSelect
  \/ ChunkWrite
  \/ EmbedSelect
  \/ EmbedCall
  \/ EmbedWrite
  \/ Return
  \/ TickStart
  \/ CrashInWriteLoop

RecoverSpec == Init /\ [][RecoverNext]_vars /\ WorkerFairness

\* The stage functions called directly, with any limit, while the loop sleeps.
CallInit ==
  /\ raw = <<>> /\ cleaned = <<>> /\ chunks = <<>>
  /\ pc = "sleep" /\ mode = "tick" /\ stage = "none"
  /\ loc = NoLoc /\ ret = 0
  /\ processedCount = [cleaned |-> 0, chunked |-> 0, embedded |-> 0]
  /\ wait = POLL_INTERVAL_MS
  /\ crashes = 0 /\ failures = 0 /\ deletes = 0
  /\ sel = NoSel
  /\ chunkDone = {}
  /\ peer = NoPeer
  /\ search = NoSearch
  /\ env = WithKey
  /\ answer = NoAnswer

CallNext ==
  \/ DiscordMessageCreate
  \/ GithubWebhook(GithubFiles)
  \/ Call
  \/ Recall
  \/ CleanSelect
  \/ CleanCreate
  \/ CleanMark
  \/ ChunkSelect
  \/ ChunkWrite
  \/ EmbedSelect
  \/ EmbedCall
  \/ EmbedWrite
  \/ Return

CallSpec == CallInit /\ [][CallNext]_vars

\* Payloads the JSONB column Data.data can hold that the listeners do not
\* write: a chat message without content, one whose content is a number, one
\* whose timestamp no Date parses, and a file whose CONTENT is a number.
MalformedPayloads ==
  { [source |-> "Discord",
     data |-> [content |-> <<>>, contentType |-> "undefined", username |-> "alice",
               timestamp |-> "2026-01-27T07:10:21.000Z", filename |-> NULL]],
    [source |-> "Discord",
     data |-> [content |-> <<>>, contentType |-> "number", username |-> "alice",
               timestamp |-> "2026-01-27T07:10:21.000Z", filename |-> NULL]],
    [source |-> "Discord",
     data |-> [content |-> <<"hello">>, contentType |-> "string",
               username |-> "alice", timestamp |-> "not a date",
               filename |-> NULL]],
    [source |-> "Github",
     data |-> [content |-> <<>>, contentType |-> "number", username |-> NULL,
               timestamp |-> NULL, filename |-> "a.ts"]] }

\* A writer to the store other than the two listeners appends a Raw Record.
StoreMalformed ==
  \E p \in MalformedPayloads : NewRaw(p.source, p.data)

\* The orchestrator over a store that also receives malformed payloads; no
\* write fails for another reason and the process is never killed.
MalformedNext ==
  \/ DiscordMessageCreate
  \/ StoreMalformed
  \/ autoClean
  \/ autoChunk
  \/ autoEmbed
  \/ CleanSelect
  \/ CleanCreate
  \/ CleanMark
  \/ ChunkSelect
  \/ ChunkWrite
  \/ EmbedSelect
  \/ EmbedCall
  \/ EmbedWrite
  \/ Return
  \/ TickStart

MalformedSpec == Init /\ [][MalformedNext]_vars /\ WorkerFairness

\* The same orchestrator with the fairness of the event loop stated as weak
\* fairness of the worker's steps.
MalformedFairSpec == Init /\ [][MalformedNext]_vars /\ WF_vars(Worker)

\* A store that holds one Raw Record more than a tick's batch when the
\* pipeline starts: chat messages with a code block each, so that their Chunks
\* are more than one provider sub-batch; the first message has a link too.
BacklogInit ==
  /\ raw = [j \in 1..(BATCH_SIZE + 1) |->
             [source |-> "Discord",
              data |-> [content |-> IF j = 1 THEN <<"hello", "<URL>", "<CODE>">>
                                    ELSE <<"hello", "<CODE>">>,
                        contentType |-> "string",
                        username |-> "alice",
                        timestamp |-> "2026-01-27T07:10:21.000Z",
                        filename |-> NULL],
              processed |-> FALSE, lastProcessedAt |-> NULL, deletedAt |-> NULL]]
  /\ cleaned = <<>> /\ chunks = <<>>
  /\ pc = "sleep" /\ mode = "tick" /\ stage = "none"
  /\ loc = NoLoc /\ ret = 0
  /\ processedCount = [cleaned |-> 0, chunked |-> 0, embedded |-> 0]
  /\ wait = POLL_INTERVAL_MS
  /\ crashes = 0 /\ failures = 0 /\ deletes = 0
  /\ sel = NoSel
  /\ chunkDone = {}
  /\ peer = NoPeer
  /\ search = NoSearch
  /\ env = WithKey
  /\ answer = NoAnswer

\* A direct call of an exported stage function without a limit:
\* processUncleanedData(), processUnchunkedData(), embedUnprocessedChunks().
CallUnlimited ==
  \E s \in Stages :
    /\ pc = "sleep"
    /\ pc' = "select" /\ stage' = s /\ mode' = "call"
    /\ loc' = NoLoc
    /\ UNCHANGED <<raw, cleaned, chunks, ret, processedCount, wait, crashes,
                   failures, deletes, sel, chunkDone, peer, search,
                   env, answer>>

\* batchEmbedContents rejects: embedBatch logs the error and throws it again.
ProviderFails == pc = "embed_call" /\ Throw

\* The orchestrator and direct unlimited calls over the backlog; the provider
\* may fail.
BacklogNext ==
  \/ CallUnlimited
  \/ ProviderFails
  \/ autoClean
  \/ autoChunk
  \/ autoEmbed
  \/ CleanSelect
  \/ CleanCreate
  \/ CleanMark
  \/ ChunkSelect
  \/ ChunkWrite
  \/ EmbedSelect
  \/ EmbedCall
  \/ EmbedWrite
  \/ Return
  \/ TickStart

BacklogSpec == BacklogInit /\ [][BacklogNext]_vars

\* process.on("SIGINT"): the handler prints the totals of getStats(), calls
\* pipeline.stop() and then process.exit(0), in one run of the event loop;
\* whatever the loop was awaiting is abandoned with the process.
Interrupt ==
  /\ pc # "interrupted"
  /\ pc' = "interrupted"
  /\ UNCHANGED <<raw, cleaned, chunks, mode, stage, loc, ret, processedCount,
                 wait, crashes, failures, deletes, sel, chunkDone, peer, search,
                 env, answer>>

\* The orchestrator with the chat listener, writes that may fail, and the
\* interrupt signal.
SignalNext ==
  \/ DiscordMessageCreate
  \/ Interrupt
  \/ Throw
  \/ autoClean
  \/ autoChunk
  \/ autoEmbed
  \/ CleanSelect
  \/ CleanCreate
  \/ CleanMark
  \/ ChunkSelect
  \/ ChunkWrite
  \/ EmbedSelect
  \/ EmbedCall
  \/ EmbedWrite
  \/ Return
  \/ TickStart

SignalSpec == Init /\ [][SignalNext]_vars /\ WorkerFairness

\* --------------------------------------------- two orchestrators, one store
\* A second process runs auto-pipeline.ts against the same database.  Its
\* passes are the stage functions again, on its own locals; nothing in a
\* selection or a write refers to the process that issues it.
mainVars == <<pc, mode, stage, loc, ret, processedCount, wait, crashes, failures,
              deletes, sel, chunkDone, search, env, answer>>

\* main() of the second process: new AutoPipeline().start()
PeerStart ==
  /\ peer.pc = "off"
  /\ peer' = [NoPeer EXCEPT !.pc = "auto", !.stage = "clean"]
  /\ UNCHANGED <<store, mainVars>>

\* The loop body of the second process after stage s.
PeerAfterStage(s) ==
  IF s = "embed"
  THEN [NoPeer EXCEPT !.pc = "sleep"]
  ELSE [NoPeer EXCEPT !.pc = "auto",
                      !.stage = IF s = "clean" THEN "chunk" ELSE "embed"]

\* autoClean, autoChunk, autoEmbed of the second process up to the call.
PeerAuto ==
  /\ peer.pc = "auto"
  /\ LET found == Take(Eligible(peer.stage), BATCH_SIZE)
     IN peer' = IF ~Enabled(peer.stage) \/ found = <<>>
                THEN PeerAfterStage(peer.stage)
                ELSE [peer EXCEPT !.pc = "select"]
  /\ UNCHANGED <<store, mainVars>>

\* processUncleanedData in the second process: findMany.
PeerCleanSelect ==
  /\ peer.pc = "select" /\ peer.stage = "clean"
  /\ LET rows == CleanEligible
         first == CleanSkip(rows, 1)
     IN peer' = [peer EXCEPT !.batch = rows, !.i = first,
                             !.pc = IF first > Len(rows) THEN "return"
                                    ELSE "clean_create"]
  /\ UNCHANGED <<store, mainVars>>

\* The row prisma.cleanedData.create writes for Raw Record id.
CleanedRow(id) ==
  LET c == Clean(raw[id])[1]
  IN [dataId |-> id, source |-> raw[id].source, cleanedContent |-> c.content,
      timestamp |-> ParseDate(c.timestamp), username |-> c.username,
      urls |-> c.urls, codeBlocks |-> c.codeBlocks, filename |-> c.filename,
      fileType |-> c.fileType, isCode |-> c.isCode, language |-> c.language,
      sections |-> c.sections]

\* processUncleanedData in the second process: prisma.cleanedData.create.
PeerCleanCreate ==
  /\ peer.pc = "clean_create"
  /\ LET row == CleanedRow(peer.batch[peer.i])
     IN IF row.timestamp = InvalidDate
        THEN peer' = [NoPeer EXCEPT !.pc = "sleep"] /\ UNCHANGED cleaned
        ELSE /\ cleaned' = Append(cleaned, row)
             /\ peer' = [peer EXCEPT !.pc = "clean_mark"]
  /\ UNCHANGED <<raw, chunks, mainVars>>

\* processUncleanedData in the second process: prisma.data.update.
PeerCleanMark ==
  /\ peer.pc = "clean_mark"
  /\ LET id == peer.batch[peer.i]
         next == CleanSkip(peer.batch, peer.i + 1)
     IN /\ raw' = [raw EXCEPT ![id].processed = TRUE,
                              ![id].lastProcessedAt = "now"]
        /\ peer' = [peer EXCEPT !.i = next,
                                !.pc = IF next > Len(peer.batch) THEN "return"
                                       ELSE "clean_create"]
  /\ UNCHANGED <<cleaned, chunks, mainVars>>

\* processUnchunkedData in the second process: findMany.
PeerChunkSelect ==
  /\ peer.pc = "select" /\ peer.stage = "chunk"
  /\ LET rows == ChunkEligible
         first == ChunkSkip(rows, 1)
     IN peer' = [peer EXCEPT !.batch = rows, !.i = first, !.k = 1,
                             !.pc = IF first > Len(rows) THEN "return"
                                    ELSE "chunk_write"]
  /\ UNCHANGED <<store, mainVars>>

\* processUnchunkedData in the second process: one prisma.chunk.create.
PeerChunkWrite ==
  /\ peer.pc = "chunk_write"
  /\ LET id == peer.batch[peer.i]
         pending == ChunksOf(cleaned[id])
         next == ChunkSkip(peer.batch, peer.i + 1)
     IN /\ chunks' = Append(chunks,
             [cleanedDataId |-> id, source |-> cleaned[id].source,
              embedding |-> <<>>, embeddedAt |-> NULL, writes |-> 0]
             @@ pending[peer.k])
        /\ peer' = IF peer.k < Len(pending)
                   THEN [peer EXCEPT !.k = @ + 1]
                   ELSE [peer EXCEPT !.i = next, !.k = 1,
                                     !.pc = IF next > Len(peer.batch)
                                            THEN "return" ELSE @]
  /\ UNCHANGED <<raw, cleaned, mainVars>>

\* embedUnprocessedChunks(BATCH_SIZE) in the second process: findMany.
PeerEmbedSelect ==
  /\ peer.pc = "select" /\ peer.stage = "embed"
  /\ LET rows == TakeLimit(EmbedEligible, BATCH_SIZE)
     IN peer' = [peer EXCEPT !.batch = rows, !.i = 1, !.embeddings = <<>>,
                             !.pc = IF rows = <<>> THEN "return"
                                    ELSE "embed_call"]
  /\ UNCHANGED <<store, mainVars>>

\* embedBatch in the second process: one batchEmbedContents call.
PeerEmbedCall ==
  /\ peer.pc = "embed_call"
  /\ LET done == Len(peer.embeddings)
         upto == Min(done + EMBED_BATCH_SIZE, Len(peer.batch))
         batchEmbeddings ==
           [j \in 1..(upto - done) |->
              Embedding(chunks[peer.batch[done + j]].contextMetadata,
                        "RETRIEVAL_DOCUMENT")]
     IN peer' = [peer EXCEPT !.embeddings = @ \o batchEmbeddings,
                             !.pc = IF upto = Len(peer.batch)
                                    THEN "embed_write" ELSE @]
  /\ UNCHANGED <<store, mainVars>>

\* embedUnprocessedChunks in the second process: one UPDATE "Chunk".
PeerEmbedWrite ==
  /\ peer.pc = "embed_write"
  /\ LET id == peer.batch[peer.i]
     IN chunks' = [chunks EXCEPT ![id].embedding = <<peer.embeddings[peer.i]>>,
                                 ![id].embeddedAt = "now",
                                 ![id].writes = @ + 1]
  /\ peer' = [peer EXCEPT !.i = @ + 1,
                          !.pc = IF peer.i = Len(peer.batch) THEN "return"
                                 ELSE @]
  /\ UNCHANGED <<raw, cleaned, mainVars>>

\* A pass of the second process returns and its loop goes on.
PeerReturn ==
  /\ peer.pc = "return"
  /\ peer' = PeerAfterStage(peer.stage)
  /\ UNCHANGED <<store, mainVars>>

\* The sleep of the second process ends.
PeerTickStart ==
  /\ peer.pc = "sleep"
  /\ peer' = [NoPeer EXCEPT !.pc = "auto", !.stage = "clean"]
  /\ UNCHANGED <<store, mainVars>>

\* The store holds MaxShared chat messages that no pass has seen; the first
\* process is in its poll sleep and the second one is about to be started.
DuoInit ==
  /\ raw = [j \in 1..MaxShared |->
             [source |-> "Discord",
              data |-> [content |-> <<"hello">>, contentType |-> "string",
                        username |-> "alice",
                        timestamp |-> "2026-01-27T07:10:21.000Z",
                        filename |-> NULL],
              processed |-> FALSE, lastProcessedAt |-> NULL, deletedAt |-> NULL]]
  /\ cleaned = <<>> /\ chunks = <<>>
  /\ pc = "sleep" /\ mode = "tick" /\ stage = "none"
  /\ loc = NoLoc /\ ret = 0
  /\ processedCount = [cleaned |-> 0, chunked |-> 0, embedded |-> 0]
  /\ wait = POLL_INTERVAL_MS
  /\ crashes = 0 /\ failures = 0 /\ deletes = 0
  /\ sel = NoSel
  /\ chunkDone = {}
  /\ peer = NoPeer
  /\ search = NoSearch
  /\ env = WithKey
  /\ answer = NoAnswer

\* Two orchestrators on one store; no await rejects and no process is killed.
DuoNext ==
  \/ autoClean
  \/ autoChunk
  \/ autoEmbed
  \/ CleanSelect
  \/ CleanCreate
  \/ CleanMark
  \/ ChunkSelect
  \/ ChunkWrite
  \/ EmbedSelect
  \/ EmbedCall
  \/ EmbedWrite
  \/ Return
  \/ TickStart
  \/ PeerStart
  \/ PeerAuto
  \/ PeerCleanSelect
  \/ PeerCleanCreate
  \/ PeerCleanMark
  \/ PeerChunkSelect
  \/ PeerChunkWrite
  \/ PeerEmbedSelect
  \/ PeerEmbedCall
  \/ PeerEmbedWrite
  \/ PeerReturn
  \/ PeerTickStart

DuoSpec == DuoInit /\ [][DuoNext]_vars

\* ------------------------------------------------------- similarity search
\* Vectors are unit vectors in a plane at 0, 90 and 180 degrees, named by
\* their quarter turns; `<=>` is one minus the cosine of the angle between
\* two of them: 0 for the same direction, 1 for a right angle, 2 for opposite.
Vectors == 0..2

CosineDistance(u, v) == IF u < v THEN v - u ELSE u - v

Sources == {"Discord", "Github"}

\* The Cleaned Record the LEFT JOIN finds for a Chunk of source s.
ParentOf(s) == IF s = "Discord" THEN 1 ELSE 2

\* SearchEligible with the same WHERE clause whether or not a source is given.
SearchEligibleAnySource(source) ==
  SelectSeq(Ids(Len(chunks)), LAMBDA c : chunks[c].embedding # <<>>)

\* WHERE c.embedding IS NOT NULL [AND c.source = ${source}]
SearchEligible(source) ==
  SelectSeq(Ids(Len(chunks)),
            LAMBDA c : /\ chunks[c].embedding # <<>>
                       /\ (source = NULL \/ chunks[c].source = source))

Distance(query, c) == CosineDistance(chunks[c].embedding[1], query)

\* Ranked with the rows ordered by descending distance.
RECURSIVE RankedFarthestFirst(_, _)
RankedFarthestFirst(query, rows) ==
  IF rows = {} THEN {<<>>}
  ELSE LET first == {c \in rows : \A d \in rows :
                       Distance(query, c) >= Distance(query, d)}
       IN UNION {{<<c>> \o rest :
                    rest \in RankedFarthestFirst(query, rows \ {c})} :
                 c \in first}

\* ORDER BY c.embedding <=> ${vectorString}::vector: every order of the rows
\* that ascends by distance; rows at equal distance come in any order.
RECURSIVE Ranked(_, _)
Ranked(query, rows) ==
  IF rows = {} THEN {<<>>}
  ELSE LET first == {c \in rows : \A d \in rows :
                       Distance(query, c) <= Distance(query, d)}
       IN UNION {{<<c>> \o rest : rest \in Ranked(query, rows \ {c})} :
                 c \in first}

\* FormatResult reporting the distance, in percent of its range, as the
\* similarity.
FormatResultDistance(query, c) ==
  [chunk |-> [id |-> c, source |-> chunks[c].source,
              cleanedData |->
                [username |-> cleaned[chunks[c].cleanedDataId].username,
                 filename |-> cleaned[chunks[c].cleanedDataId].filename,
                 timestamp |-> cleaned[chunks[c].cleanedDataId].timestamp]],
   similarity |-> (Distance(query, c) * 100) \div 2]

\* results.map: the chunk with its provenance, and the distance converted to
\* a similarity, 1 - distance / 2, held in percent.
FormatResult(query, c) ==
  [chunk |-> [id |-> c, source |-> chunks[c].source,
              cleanedData |->
                [username |-> cleaned[chunks[c].cleanedDataId].username,
                 filename |-> cleaned[chunks[c].cleanedDataId].filename,
                 timestamp |-> cleaned[chunks[c].cleanedDataId].timestamp]],
   similarity |-> 100 - (Distance(query, c) * 100) \div 2]

\* searchSimilar with the LIMIT clause left out of the statement.
searchSimilarNoLimit(query, topK, source) ==
  {[j \in 1..Len(p) |-> FormatResult(query, p[j])] :
     p \in Ranked(query, SeqToSet(SearchEligible(source)))}

\* searchSimilar(query, topK, source), given the vector the provider returned
\* for the query: the results the database may return, LIMIT ${topK} of a
\* ranking, formatted.
searchSimilar(query, topK, source) ==
  {[j \in 1..Min(topK, Len(p)) |-> FormatResult(query, p[j])] :
     p \in Ranked(query, SeqToSet(SearchEligible(source)))}

\* A Chunk as the search reads it: its source and its vector, if it has one.
StoredChunks ==
  [source : Sources, embedding : {<<>>} \cup {<<v>> : v \in Vectors}]

\* The store holds a chat record and a file record, and up to MaxStored of
\* their Chunks, embedded or not; the loop sleeps.
SearchInit ==
  /\ raw = <<>>
  /\ cleaned = <<[source |-> "Discord", username |-> "alice", filename |-> NULL,
                  timestamp |-> "2026-01-27T07:10:21.000Z"],
                 [source |-> "Github", username |-> NULL, filename |-> "a.ts",
                  timestamp |-> NULL]>>
  /\ \E n \in 0..MaxStored :
       \E stored \in [1..n -> StoredChunks] :
         chunks = [c \in 1..n |->
                     [cleanedDataId |-> ParentOf(stored[c].source),
                      source |-> stored[c].source,
                      embedding |-> stored[c].embedding,
                      embeddedAt |-> IF stored[c].embedding = <<>> THEN NULL
                                     ELSE "now"]]
  /\ pc = "sleep" /\ mode = "tick" /\ stage = "none"
  /\ loc = NoLoc /\ ret = 0
  /\ processedCount = [cleaned |-> 0, chunked |-> 0, embedded |-> 0]
  /\ wait = POLL_INTERVAL_MS
  /\ crashes = 0 /\ failures = 0 /\ deletes = 0
  /\ sel = NoSel
  /\ chunkDone = {}
  /\ peer = NoPeer
  /\ search = NoSearch
  /\ env = WithKey
  /\ answer = NoAnswer

\* A caller runs searchSimilar against this store with a topK out of topKs;
\* the provider embeds the query as some vector.
SearchWith(topKs) ==
  /\ search = NoSearch
  /\ \E query \in Vectors, topK \in topKs, source \in Sources \cup {NULL} :
       \E results \in searchSimilar(query, topK, source) :
         search' = [query |-> query, topK |-> topK, source |-> source,
                    results |-> results]
  /\ UNCHANGED <<raw, cleaned, chunks, pc, mode, stage, loc, ret,
                 processedCount, wait, crashes, failures, deletes, sel,
                 chunkDone, peer, env, answer>>

Search == SearchWith(1..MaxStored)

SearchNext == Search

SearchSpec == SearchInit /\ [][SearchNext]_vars

\* ------------------------------------------------------------------ answers
TOP_K_RESULTS == 5

\* "I don't have any relevant information in my knowledge base ..."
NO_INFORMATION == [kind |-> "no information"]

\* The context block of the prompt: one entry for each search result, with its
\* provenance and its relevance.
Context(searchResults) ==
  [j \in 1..Len(searchResults) |->
     [index |-> j,
      from |-> IF searchResults[j].chunk.source = "Discord"
               THEN searchResults[j].chunk.cleanedData.username
               ELSE searchResults[j].chunk.cleanedData.filename,
      relevance |-> searchResults[j].similarity,
      content |-> searchResults[j].chunk.id]]

\* What query returns in sources for each search result.
SourcesOf(searchResults) ==
  [j \in 1..Len(searchResults) |->
     [content |-> searchResults[j].chunk.id,
      similarity |-> searchResults[j].similarity,
      source |-> searchResults[j].chunk.source]]

\* query with the test on the number of search results left out.
queryAlwaysGenerates(question, searchResults) ==
  [asked |-> TRUE,
   answer |-> [kind |-> "generated", context |-> Context(searchResults),
               question |-> question],
   sources |-> SourcesOf(searchResults),
   invoked |-> 1]

\* RAGQuery.query after the search: the canned answer when nothing was found,
\* else one call of the chain on the context and the question.
query(question, searchResults) ==
  IF Len(searchResults) = 0
  THEN [asked |-> TRUE, answer |-> NO_INFORMATION, sources |-> <<>>,
        invoked |-> 0]
  ELSE [asked |-> TRUE,
        answer |-> [kind |-> "generated", context |-> Context(searchResults),
                    question |-> question],
        sources |-> SourcesOf(searchResults),
        invoked |-> 1]

\* A caller asks a question: RAGQuery.query(question, source, topK), with the
\* default topK or another one; the provider embeds the question as some
\* vector.
Query ==
  /\ ~answer.asked
  /\ \E question \in Vectors, source \in Sources \cup {NULL},
        topK \in {1, TOP_K_RESULTS} :
       \E searchResults \in searchSimilar(question, topK, source) :
         /\ search' = [query |-> question, topK |-> topK, source |-> source,
                       results |-> searchResults]
         /\ answer' = query(question, searchResults)
  /\ UNCHANGED <<raw, cleaned, chunks, pc, mode, stage, loc, ret,
                 processedCount, wait, crashes, failures, deletes, sel,
                 chunkDone, peer, env>>

AnswerNext == Query

AnswerSpec == SearchInit /\ [][AnswerNext]_vars

\* A Chunk of a chat message as the search reads it.
ChatChunks == [source : {"Discord"}, embedding : {<<>>} \cup {<<v>> : v \in Vectors}]

\* The store holds a chat record and up to MaxChat of its Chunks, embedded or
\* not; the loop sleeps.
ChatInit ==
  /\ raw = <<>>
  /\ cleaned = <<[source |-> "Discord", username |-> "alice", filename |-> NULL,
                  timestamp |-> "2026-01-27T07:10:21.000Z"]>>
  /\ \E n \in 0..MaxChat :
       \E stored \in [1..n -> ChatChunks] :
         chunks = [c \in 1..n |->
                     [cleanedDataId |-> ParentOf(stored[c].source),
                      source |-> stored[c].source,
                      embedding |-> stored[c].embedding,
                      embeddedAt |-> IF stored[c].embedding = <<>> THEN NULL
                                     ELSE "now"]]
  /\ pc = "sleep" /\ mode = "tick" /\ stage = "none"
  /\ loc = NoLoc /\ ret = 0
  /\ processedCount = [cleaned |-> 0, chunked |-> 0, embedded |-> 0]
  /\ wait = POLL_INTERVAL_MS
  /\ crashes = 0 /\ failures = 0 /\ deletes = 0
  /\ sel = NoSel
  /\ chunkDone = {}
  /\ peer = NoPeer
  /\ search = NoSearch
  /\ env = WithKey
  /\ answer = NoAnswer

SearchChat == SearchWith(1..MaxChat)

ChatNext == SearchChat

ChatSpec == ChatInit /\ [][ChatNext]_vars

\* ------------------------------------------------------------------ start-up
\* What process.env.GEMINI_API_KEY can hold: a key, the empty string, or
\* nothing.
Environments == {[GEMINI_API_KEY |-> k] : k \in {"key", "", NULL}}

\* constructor(apiKey?): key = apiKey || process.env.GEMINI_API_KEY;
\* `if (!key) throw`.  Both main programs call it without an argument.
ConstructorThrows == env.GEMINI_API_KEY \in {"", NULL}

\* MainPipeline going on to pipeline.start() whether or not the constructor
\* threw.
MainPipelineStartsAnyway ==
  /\ pc = "boot"
  /\ pc' = "auto" /\ stage' = "clean" /\ mode' = "tick"
  /\ UNCHANGED <<raw, cleaned, chunks, loc, ret, processedCount, wait, crashes,
                 failures, deletes, sel, chunkDone, peer, search, env, answer>>

\* auto-pipeline.ts, main: new AutoPipeline() builds the embedder; when that
\* throws, the catch logs and calls process.exit(1); else pipeline.start().
MainPipeline ==
  /\ pc = "boot"
  /\ IF ConstructorThrows
     THEN pc' = "exit_1" /\ UNCHANGED <<stage, mode>>
     ELSE pc' = "auto" /\ stage' = "clean" /\ mode' = "tick"
  /\ UNCHANGED <<raw, cleaned, chunks, loc, ret, processedCount, wait, crashes,
                 failures, deletes, sel, chunkDone, peer, search, env, answer>>

\* api-server.ts at module level: ragSystem = new RAGQuery(); when that throws,
\* process.exit(1); else the routes are registered and the server listens.
MainApi ==
  /\ pc = "api_boot"
  /\ pc' = IF ConstructorThrows THEN "exit_1" ELSE "serving"
  /\ UNCHANGED <<raw, cleaned, chunks, mode, stage, loc, ret, processedCount,
                 wait, crashes, failures, deletes, sel, chunkDone, peer, search,
                 env, answer>>

\* app.post("/api/query") and app.post("/api/query-simple")
ApiQuery == pc = "serving" /\ Query

\* `bun run rag-pipeline/auto-pipeline.ts` or `bun run api-server.ts`: one of
\* the two programs is started, in an environment with or without the
\* credential.
Launch ==
  /\ pc = "off"
  /\ pc' \in {"boot", "api_boot"}
  /\ env' \in Environments
  /\ UNCHANGED <<raw, cleaned, chunks, mode, stage, loc, ret, processedCount,
                 wait, crashes, failures, deletes, sel, chunkDone, peer, search,
                 answer>>

\* The store is empty and neither program runs yet.
BootInit ==
  /\ raw = <<>> /\ cleaned = <<>> /\ chunks = <<>>
  /\ pc = "off"
  /\ mode = "tick" /\ stage = "none"
  /\ loc = NoLoc /\ ret = 0
  /\ processedCount = [cleaned |-> 0, chunked |-> 0, embedded |-> 0]
  /\ wait = 0
  /\ crashes = 0 /\ failures = 0 /\ deletes = 0
  /\ sel = NoSel
  /\ chunkDone = {}
  /\ peer = NoPeer
  /\ search = NoSearch
  /\ env = WithKey
  /\ answer = NoAnswer

\* The started program, with the listeners storing Raw Records meanwhile.
BootNext ==
  \/ DiscordMessageCreate
  \/ GithubWebhook(CodeAndSections)
  \/ Launch
  \/ MainPipeline
  \/ MainApi
  \/ ApiQuery
  \/ autoClean
  \/ autoChunk
  \/ autoEmbed
  \/ CleanSelect
  \/ CleanCreate
  \/ CleanMark
  \/ ChunkSelect
  \/ ChunkWrite
  \/ EmbedSelect
  \/ EmbedCall
  \/ EmbedWrite
  \/ Return
  \/ TickStart

BootSpec == BootInit /\ [][BootNext]_vars

\* ------------------------------------------------- the Cleaner on its own
\* processUncleanedData(1) is called while no pass is running.
InvokeCleaner ==
  /\ pc = "sleep"
  /\ pc' = "select" /\ stage' = "clean" /\ mode' = "call"
  /\ loc' = [NoLoc EXCEPT !.limit = 1]
  /\ UNCHANGED <<raw, cleaned, chunks, ret, processedCount, wait, crashes,
                 failures, deletes, sel, chunkDone, peer, search,
                 env, answer>>

\* The steps of a caller that invokes the Cleaner with limit 1 again and again.
CleanerSteps ==
  \/ InvokeCleaner
  \/ CleanSelect
  \/ CleanCreate
  \/ CleanMark
  \/ Return

\* The chat listener, soft deletes and a caller that keeps invoking the Cleaner
\* with limit 1; the loop of the orchestrator is not running.
CleanLoopNext ==
  \/ DiscordMessageCreate
  \/ SoftDelete
  \/ InvokeCleaner
  \/ CleanSelect
  \/ CleanCreate
  \/ CleanMark
  \/ Return

CleanLoopSpec == CallInit /\ [][CleanLoopNext]_vars /\ WF_vars(CleanerSteps)

\* -------------------------------------------------------------- long files
\* Pushed files whose text is longer than the preview of a context string:
\* a code file, a markdown file with a section, one without, and a text file.
LongFiles ==
  { [filename |-> "a.ts", content |-> <<"function f", "long line">>],
    [filename |-> "README.md", content |-> <<"## Title", "long line">>],
    [filename |-> "README.md", content |-> <<"long line", "", "plain text">>],
    [filename |-> "notes.txt", content |-> <<"long line", "", "plain text">>] }

\* The orchestrator with the chat listener and the webhook listener receiving
\* short and long files; no write fails and the process is never killed.
LongFileNext ==
  \/ DiscordMessageCreate
  \/ GithubWebhook(GithubFiles \cup LongFiles)
  \/ autoClean
  \/ autoChunk
  \/ autoEmbed
  \/ CleanSelect
  \/ CleanCreate
  \/ CleanMark
  \/ ChunkSelect
  \/ ChunkWrite
  \/ EmbedSelect
  \/ EmbedCall
  \/ EmbedWrite
  \/ Return
  \/ TickStart

LongFileSpec == Init /\ [][LongFileNext]_vars

\* ----------------------------------------------------------- chat messages
\* The words a posted chat message is made of: a plain word and two fenced
\* code blocks.
MessageWords == {"hello", "<CODE>", "<CODE:py>"}

MessageBodies == UNION { [1..n -> MessageWords] : n \in 1..MaxWords }

\* discord-server.ts, client.on('messageCreate'), on one message posted while
\* the store is empty.
PostMessage ==
  /\ raw = <<>>
  /\ \E c \in MessageBodies :
       NewRaw("Discord", [content |-> c, contentType |-> "string",
                          username |-> "alice",
                          timestamp |-> "2026-01-27T07:10:21.000Z",
                          filename |-> NULL])

\* The orchestrator over a store that receives one chat message; no write
\* fails and the process is never killed.
MessageNext ==
  \/ PostMessage
  \/ autoClean
  \/ autoChunk
  \/ autoEmbed
  \/ CleanSelect
  \/ CleanCreate
  \/ CleanMark
  \/ ChunkSelect
  \/ ChunkWrite
  \/ EmbedSelect
  \/ EmbedCall
  \/ EmbedWrite
  \/ Return
  \/ TickStart

MessageSpec == Init /\ [][MessageNext]_vars

\* -------------------------------------------------------------- code files
\* The lines a pushed code file is made of: a declaration, another line of
\* code and a line comment.
CodeLines == {"function f", "x", "// note"}

CodeFiles ==
  { [filename |-> "a.ts", content |-> c] :
      c \in UNION { [1..n -> CodeLines] : n \in 1..MaxLines } }

\* github-server.ts, app.post("/github"), on the push of one code file to an
\* empty store.
PushCode ==
  /\ raw = <<>>
  /\ GithubWebhook(CodeFiles)

\* The orchestrator over a store that receives one code file; no write fails
\* and the process is never killed.
CodeNext ==
  \/ PushCode
  \/ autoClean
  \/ autoChunk
  \/ autoEmbed
  \/ CleanSelect
  \/ CleanCreate
  \/ CleanMark
  \/ ChunkSelect
  \/ ChunkWrite
  \/ EmbedSelect
  \/ EmbedCall
  \/ EmbedWrite
  \/ Return
  \/ TickStart

CodeSpec == Init /\ [][CodeNext]_vars

\* -------------------------------------------------------- large code files
\* A pushed code file made of two runs of equal lines: short lines, lines of
\* 300 and of 3300 characters, and declarations.
RunLines == {"x", "long line", "huge line", "function f"}

Run(l, n) == [j \in 1..n |-> l]

LargeCodeFiles ==
  { [filename |-> "a.ts", content |-> Run(l1, n1) \o Run(l2, n2)] :
      l1 \in RunLines, l2 \in RunLines, n1 \in 1..MaxRun, n2 \in 0..MaxRun }

\* github-server.ts, app.post("/github"), on the push of one large code file
\* to an empty store.
PushLargeCode ==
  /\ raw = <<>>
  /\ GithubWebhook(LargeCodeFiles)

\* The orchestrator over a store that receives one large code file; no write
\* fails and the process is never killed.
LargeCodeNext ==
  \/ PushLargeCode
  \/ autoClean
  \/ autoChunk
  \/ autoEmbed
  \/ CleanSelect
  \/ CleanCreate
  \/ CleanMark
  \/ ChunkSelect
  \/ ChunkWrite
  \/ EmbedSelect
  \/ EmbedCall
  \/ EmbedWrite
  \/ Return
  \/ TickStart

LargeCodeSpec == Init /\ [][LargeCodeNext]_vars

\* ---------------------------------------------------------- markdown files
\* The lines a pushed markdown file is made of: headings of two levels, a
\* line of prose and an empty line.
MarkdownLines == {"# Doc", "## Title", "## Usage", "plain text", ""}

MarkdownFiles ==
  { [filename |-> "README.md", content |-> c] :
      c \in UNION { [1..n -> MarkdownLines] : n \in 1..MaxLines } }

\* github-server.ts, app.post("/github"), on the push of one markdown file to
\* an empty store.
PushMarkdown ==
  /\ raw = <<>>
  /\ GithubWebhook(MarkdownFiles)

\* The orchestrator over a store that receives one markdown file; no write
\* fails and the process is never killed.
MarkdownNext ==
  \/ PushMarkdown
  \/ autoClean
  \/ autoChunk
  \/ autoEmbed
  \/ CleanSelect
  \/ CleanCreate
  \/ CleanMark
  \/ ChunkSelect
  \/ ChunkWrite
  \/ EmbedSelect
  \/ EmbedCall
  \/ EmbedWrite
  \/ Return
  \/ TickStart

MarkdownSpec == Init /\ [][MarkdownNext]_vars

\* ================================================================== claims
CleanedFor(r) == {j \in 1..Len(cleaned) : cleaned[j].dataId = r}

\* C1: as long as the process was never killed and no pass failed, every Raw
\* Record is referenced by at most one Cleaned Record.
C1_AtMostOneCleaned ==
  (crashes = 0 /\ failures = 0) =>
    \A r \in 1..Len(raw) : Cardinality(CleanedFor(r)) <= 1

\* A Cleaner pass has completed that did not select again a record cleaned by
\* an earlier pass.
C1_Witness ==
  /\ crashes = 0 /\ failures = 0
  /\ pc = "return" /\ stage = "clean" /\ loc.batch # <<>>
  /\ \E r \in 1..Len(raw) :
       /\ raw[r].processed
       /\ Cardinality(CleanedFor(r)) = 1
       /\ r \notin SeqToSet(loc.batch)

\* C2: also when the process is killed between two store writes of a Cleaner
\* pass and started again, every Raw Record has at most one Cleaned Record.
C2_AtMostOneCleanedAcrossKill ==
  failures = 0 => \A r \in 1..Len(raw) : Cardinality(CleanedFor(r)) <= 1

\* C3: when a Cleaner pass returns, every Raw Record it selected is marked
\* processed and carries a processedAt timestamp, accepted or rejected.
C3_SelectedAreProcessed ==
  (pc = "return" /\ stage = "clean") =>
    \A j \in 1..Len(loc.batch) :
      /\ raw[loc.batch[j]].processed
      /\ raw[loc.batch[j]].lastProcessedAt # NULL

\* C4: the vector of a Chunk is written at most once, whatever kills and
\* failures interrupt the Embedding Writer.
C4_VectorWrittenOnce ==
  \A c \in 1..Len(chunks) : chunks[c].writes <= 1

\* After a kill or a failure an Embedding Writer pass has completed that did
\* not select a Chunk embedded before.
C4_Witness ==
  /\ crashes + failures > 0
  /\ pc = "return" /\ stage = "embed" /\ loc.batch # <<>>
  /\ \E c \in 1..Len(chunks) :
       chunks[c].writes = 1 /\ c \notin SeqToSet(loc.batch)

ChunkIds == 1..(2 * MaxRaw)

\* C5: a Chunk has a vector exactly when it has embeddedAt, and every Chunk
\* without them, in particular one left untouched by a killed write loop, is
\* eventually embedded.
C5_Resumable ==
  /\ [](\A c \in 1..Len(chunks) :
          (chunks[c].embedding = <<>>) <=> (chunks[c].embeddedAt = NULL))
  /\ \A c \in ChunkIds :
       (c <= Len(chunks) /\ chunks[c].embeddedAt = NULL)
         ~> (c <= Len(chunks) /\ chunks[c].embeddedAt # NULL)

\* The process was killed in the write loop between two Chunks of one Cleaned
\* Record and has started again.
C5_Witness ==
  /\ crashes > 0 /\ pc = "auto" /\ stage = "clean"
  /\ \E c, d \in 1..Len(chunks) :
       /\ chunks[c].cleanedDataId = chunks[d].cleanedDataId
       /\ chunks[c].embeddedAt # NULL
       /\ chunks[d].embeddedAt = NULL

Accepts(r) == Clean(raw[r]) # <<>>

\* Raw Record r has a Cleaned Record, and each of its Cleaned Records has all
\* the Chunks the Chunker derives from it, each with a vector.
Complete(r) ==
  /\ CleanedFor(r) # {}
  /\ \A j \in CleanedFor(r) :
       /\ Len(ChunksOfRecord(j)) = Len(ChunksOf(cleaned[j]))
       /\ \A c \in SeqToSet(ChunksOfRecord(j)) : chunks[c].embeddedAt # NULL

\* C6: every Raw Record the Cleaner accepts, unless it is soft-deleted, is
\* eventually cleaned, completely chunked and embedded.
C6_EventuallyEmbedded ==
  \A r \in 1..MaxRaw :
    (r <= Len(raw) /\ Accepts(r) /\ raw[r].deletedAt = NULL)
      ~> (r <= Len(raw) /\ (raw[r].deletedAt # NULL \/ Complete(r)))

\* A Raw Record that came after a rejected one went through the three stages.
C6_Witness ==
  \E q, r \in 1..Len(raw) :
    /\ q < r /\ ~Accepts(q) /\ raw[q].deletedAt = NULL
    /\ raw[r].deletedAt = NULL /\ Complete(r)

C8_ContiguousIndices ==
  \A id \in 1..Len(cleaned) :
    LET cs == ChunksOfRecord(id)
    IN \A j \in 1..Len(cs) : chunks[cs[j]].chunkIndex = j - 1

\* A Chunker pass has completed after an earlier one gave a Cleaned Record
\* two Chunks or more.
C8_Witness ==
  /\ pc = "return" /\ stage = "chunk" /\ loc.batch # <<>>
  /\ \E id \in chunkDone :
       Len(ChunksOfRecord(id)) >= 2 /\ id \notin SeqToSet(loc.batch)

\* C9: when a Chunker pass returns, every Cleaned Record it selected whose
\* body is not empty has a Chunk, and a pass selects no Cleaned Record that a
\* completed pass had selected.
C9_ChunkedOnce ==
  /\ (pc = "return" /\ stage = "chunk") =>
       \A j \in 1..Len(loc.batch) :
         cleaned[loc.batch[j]].cleanedContent # <<>>
           => ChunksOfRecord(loc.batch[j]) # <<>>
  /\ (stage = "chunk" /\ pc \in {"chunk_write", "return"}) =>
       SeqToSet(loc.batch) \cap chunkDone = {}

\* A second Chunker pass has completed, on a markdown file without sections.
C9_Witness ==
  /\ pc = "return" /\ stage = "chunk" /\ chunkDone # {}
  /\ \E j \in 1..Len(loc.batch) :
       /\ cleaned[loc.batch[j]].fileType = "markdown"
       /\ cleaned[loc.batch[j]].sections = <<>>

\* C10: a stage that throws inside a tick ends the tick, the loop sleeps the
\* penalty interval, the failed work is still there for the next tick to
\* select, and the next tick starts with the Cleaner.
C10_ThrowEndsTickAndRetries ==
  /\ [][(failures' = failures + 1 /\ mode = "tick") =>
          /\ pc' = "sleep" /\ wait' = PENALTY_MS
          /\ stage = "clean" => CleanEligible' # <<>>
          /\ stage = "chunk" => ChunkEligible' # <<>>
          /\ stage = "embed" => EmbedEligible' # <<>>]_vars
  /\ [][(pc = "sleep" /\ pc' # "sleep") => (pc' = "auto" /\ stage' = "clean")]_vars

\* C11: a Cleaner pass over malformed payloads is never aborted: from select
\* to return every step of the pass stays in the pass.
C11_MalformedRejectedAlone ==
  [][(stage = "clean" /\ pc \in {"select", "clean_create", "clean_mark"}) =>
       (stage' = "clean"
        /\ pc' \in {"select", "clean_create", "clean_mark", "return"})]_vars

\* C12: when a provider sub-batch call fails, the Chunks of the sub-batches
\* embedded earlier in the same invocation have their vectors in the store.
C12_EarlierSubBatchesStored ==
  [][(pc = "embed_call" /\ failures' = failures + 1) =>
       \A j \in 1..Len(loc.embeddings) :
         chunks'[loc.batch[j]].embeddedAt # NULL]_vars

\* C13: inside a tick no stage works on more than BATCH_SIZE rows.
C13_TickBatchBounded ==
  (mode = "tick" /\ pc \notin {"auto", "sleep"}) => Len(loc.batch) <= BATCH_SIZE

\* C14: inside a tick the stage changes only when the running stage has
\* returned or found nothing to do, and then in the order Cleaner, Chunker,
\* Embedding Writer, sleep; a stage exception ends the tick.
C14_FixedStageOrder ==
  [][(mode = "tick" /\ mode' = "tick" /\ crashes' = crashes /\ stage' # stage) =>
       \/ /\ pc \in {"auto", "return", "sleep"}
          /\ <<stage, stage'>> \in {<<"clean", "chunk">>, <<"chunk", "embed">>,
                                    <<"embed", "none">>, <<"none", "clean">>}
       \/ failures' = failures + 1 /\ stage' = "none"]_vars

\* The Embedding Writer has returned in a tick whose Chunker had work.
C14_Witness ==
  /\ mode = "tick" /\ pc = "return" /\ stage = "embed" /\ loc.batch # <<>>
  /\ processedCount.cleaned > 0 /\ processedCount.chunked > 0

\* C15: as long as the process lives, none of the three totals decreases,
\* also not in the step that aborts a tick nor in the one that ends the
\* penalty sleep.
C15_TotalsNeverDecrease ==
  [][crashes' = crashes =>
       /\ processedCount'.cleaned >= processedCount.cleaned
       /\ processedCount'.chunked >= processedCount.chunked
       /\ processedCount'.embedded >= processedCount.embedded]_vars

\* A tick started after the penalty sleep of an aborted tick, the totals of
\* the work done before still standing.
C15_Witness ==
  /\ failures > 0 /\ crashes = 0
  /\ pc = "auto" /\ stage = "clean"
  /\ processedCount.cleaned > 0

\* C16: unless the interrupt handler has ended the process, a sleeping loop
\* starts its next tick and a started tick reaches its sleep, whatever the
\* stages report or throw.
C16_LoopNeverStops ==
  /\ (pc = "sleep") ~> (pc = "interrupted" \/ (pc = "auto" /\ stage = "clean"))
  /\ (pc = "auto" /\ stage = "clean") ~> (pc = "interrupted" \/ pc = "sleep")

\* A tick has started after the penalty sleep of an aborted tick.
C16_Witness ==
  failures > 0 /\ pc = "auto" /\ stage = "clean" /\ raw # <<>>

\* A pass is between two of its store writes.
BetweenWrites ==
  \/ pc = "clean_mark"
  \/ pc = "clean_create" /\ loc.count > 0
  \/ pc = "chunk_write" /\ (loc.k > 1 \/ loc.count > 0)
  \/ pc = "embed_write" /\ loc.i > 1

\* C17: the interrupt signal does not end the process while a pass is between
\* two of its store writes.
C17_ExitOnlyAtTickBoundary ==
  [][pc' = "interrupted" => ~BetweenWrites]_vars

\* C18: with two orchestrators on one store, both can select the same
\* unprocessed Raw Record and each write a Cleaned Record for it, and both can
\* select the same unchunked Cleaned Record and each write its Chunks; the
\* duplicates stop there: a Raw Record gets at most one Cleaned Record from
\* each process, a Cleaned Record at most one set of Chunks from each.
FirstChunksOf(c) ==
  {j \in 1..Len(chunks) : chunks[j].cleanedDataId = c /\ chunks[j].chunkIndex = 0}

C18_OnePerInstance ==
  /\ \A r \in 1..Len(raw) : Cardinality(CleanedFor(r)) <= 2
  /\ \A c \in 1..Len(cleaned) : Cardinality(FirstChunksOf(c)) <= 2

\* Both processes wrote a Cleaned Record for one Raw Record, and both wrote
\* the Chunks of one Cleaned Record.
C18_Witness ==
  /\ peer.pc # "off"
  /\ \E r \in 1..Len(raw) : Cardinality(CleanedFor(r)) = 2
  /\ \E c \in 1..Len(cleaned) : Cardinality(FirstChunksOf(c)) = 2

\* C19: each stage selects its batch oldest-created-first: of two rows that
\* are eligible when a pass selects, the newer one is in the batch only if the
\* older one is; the batch is held in creation order, the pass walks it from
\* the front, and each write is for the row the pass stands at.
Ascending(q) == \A j, k \in 1..Len(q) : j < k => q[j] < q[k]

C19_OldestFirst ==
  [][/\ (pc = "select" /\ pc' # "select") =>
          /\ Ascending(loc'.batch)
          /\ \A a, b \in SeqToSet(Eligible(stage)) :
                (a < b /\ b \in SeqToSet(loc'.batch))
                  => a \in SeqToSet(loc'.batch)
     /\ (pc \notin {"select", "return"} /\ loc'.batch = loc.batch) =>
          loc'.i >= loc.i
     /\ Len(cleaned') > Len(cleaned) =>
          cleaned'[Len(cleaned')].dataId = loc.batch[loc.i]
     /\ Len(chunks') > Len(chunks) =>
          chunks'[Len(chunks')].cleanedDataId = loc.batch[loc.i]
     /\ (pc = "embed_write" /\ chunks' # chunks) =>
          chunks'[loc.batch[loc.i]].writes = chunks[loc.batch[loc.i]].writes + 1
    ]_vars

\* A call with limit 1 took the oldest of several Cleaned Records without
\* chunks and is about to write its first chunk.
C19_Witness ==
  /\ mode = "call" /\ pc = "chunk_write" /\ loc.k = 1
  /\ loc.limit = 1
  /\ Len(ChunkEligible) > 1
  /\ loc.batch = <<ChunkEligible[1]>>

\* C20: a search returns its Chunks in order of ascending cosine distance to
\* the query vector, so in order of descending similarity, and no eligible
\* Chunk that it leaves out is closer to the query than one it returns.
Returned == {search.results[j].chunk.id : j \in 1..Len(search.results)}

C22_StrictlyDescending ==
  \A j \in 1..(Len(search.results) - 1) :
    search.results[j].similarity > search.results[j + 1].similarity

\* C22: of any two consecutive results of a search the first has a similarity
\* that is greater than or equal to the second's, and strictly greater when
\* its vector is strictly closer to the query.
C22_DescendingWithTies ==
  \A j \in 1..(Len(search.results) - 1) :
    LET A == search.results[j]
        B == search.results[j + 1]
    IN /\ A.similarity >= B.similarity
       /\ Distance(search.query, A.chunk.id) < Distance(search.query, B.chunk.id)
            => A.similarity > B.similarity

\* A search returned two Chunks of equal similarity ahead of a third of lower
\* similarity.
C22_Witness ==
  /\ Len(search.results) = 3
  /\ search.results[1].similarity = search.results[2].similarity
  /\ search.results[2].similarity > search.results[3].similarity

\* C23: every Chunk a search returns is eligible: it has a vector, and when a
\* source filter was given its source is the filter's; a Chunk that is not
\* embedded yet is never returned.
C23_ReturnedAreEligible ==
  \A j \in 1..Len(search.results) :
    LET c == search.results[j].chunk.id
    IN /\ chunks[c].embedding # <<>>
       /\ chunks[c].embeddedAt # NULL
       /\ search.source # NULL =>
            /\ chunks[c].source = search.source
            /\ search.results[j].chunk.source = search.source

\* A search filtered on repository files returned a Chunk from a store that
\* also holds an embedded chat Chunk and a file Chunk without a vector.
C23_Witness ==
  /\ search.source = "Github"
  /\ search.results # <<>>
  /\ \E c \in 1..Len(chunks) :
       chunks[c].source = "Discord" /\ chunks[c].embedding # <<>>
  /\ \E c \in 1..Len(chunks) :
       chunks[c].source = "Github" /\ chunks[c].embedding = <<>>

\* C24: when no Chunk is eligible for a question (empty store, nothing embedded
\* yet, or a source filter that matches no Chunk), the answer operation returns
\* the canned no-information answer with an empty source list, and the text
\* generator is not invoked.
C24_NoEligibleNoGenerator ==
  (answer.asked /\ SearchEligible(search.source) = <<>>) =>
    /\ answer.answer = NO_INFORMATION
    /\ answer.sources = <<>>
    /\ answer.invoked = 0

\* A question filtered on repository files was answered from a store whose
\* only embedded Chunks are chat Chunks.
C24_Witness ==
  /\ answer.asked
  /\ search.source = "Github"
  /\ SearchEligible("Github") = <<>>
  /\ SearchEligible("Discord") # <<>>

\* C25: a Cleaner pass selects no Raw Record whose soft-delete marker is set;
\* a pass creates Cleaned Records and changes the processed flag only for the
\* records it selected, so a record soft-deleted before a pass started is
\* left as it is by that pass.
C25_DeletedNotSelected ==
  [][/\ (pc = "select" /\ stage = "clean" /\ pc' # "select") =>
          \A j \in 1..Len(loc'.batch) : raw[loc'.batch[j]].deletedAt = NULL
     /\ \A r \in 1..Len(raw) :
          (stage # "clean" \/ r \notin SeqToSet(loc.batch)) =>
            /\ raw'[r].processed = raw[r].processed
            /\ CleanedFor(r)' = CleanedFor(r)
    ]_vars

\* A Cleaner pass is writing for a record that is newer than an acceptable,
\* soft-deleted, unprocessed record it did not select.
C25_Witness ==
  /\ stage = "clean" /\ pc = "clean_create"
  /\ \E r \in 1..Len(raw) :
       /\ raw[r].deletedAt # NULL /\ ~raw[r].processed /\ Accepts(r)
       /\ CleanedFor(r) = {}
       /\ r \notin SeqToSet(loc.batch)
       /\ r < loc.batch[loc.i]

\* C26: stages only move data forward.  A step of the Cleaner changes nothing
\* on a Raw Record but processed and processedAt, adds Cleaned Records at most,
\* and leaves the Chunks alone; a step of the Chunker adds Chunks at most and
\* leaves Raw and Cleaned Records alone; a step of the Embedding Writer changes
\* nothing but the vector and embeddedAt of Chunks; no step removes a record.
CleanerStep == CleanSelect \/ CleanCreate \/ CleanMark

ChunkerStep == ChunkSelect \/ ChunkWrite

EmbedderStep == EmbedSelect \/ EmbedCall \/ EmbedWrite

Extends(new, old) ==
  Len(new) >= Len(old) /\ SubSeq(new, 1, Len(old)) = old

C26_StagesOnlyMoveForward ==
  [][/\ CleanerStep =>
          /\ Len(raw') = Len(raw)
          /\ \A r \in 1..Len(raw) :
               [raw'[r] EXCEPT !.processed = raw[r].processed,
                               !.lastProcessedAt = raw[r].lastProcessedAt]
                 = raw[r]
          /\ Extends(cleaned', cleaned)
          /\ chunks' = chunks
     /\ ChunkerStep =>
          /\ raw' = raw /\ cleaned' = cleaned
          /\ Extends(chunks', chunks)
     /\ EmbedderStep =>
          /\ raw' = raw /\ cleaned' = cleaned
          /\ Len(chunks') = Len(chunks)
          /\ \A c \in 1..Len(chunks) :
               [chunks'[c] EXCEPT !.embedding = chunks[c].embedding,
                                  !.embeddedAt = chunks[c].embeddedAt,
                                  !.writes = chunks[c].writes]
                 = chunks[c]
    ]_vars

\* A Raw Record has been marked by the Cleaner, a Cleaned Record of it chunked
\* and a Chunk of that embedded, while a pass of the Embedding Writer still
\* runs.
C26_Witness ==
  /\ stage = "embed" /\ pc = "embed_write"
  /\ \E c \in 1..Len(chunks) :
       /\ chunks[c].embeddedAt # NULL
       /\ raw[cleaned[chunks[c].cleanedDataId].dataId].lastProcessedAt # NULL

\* C27: started without the provider credential, the process exits with a
\* failure status before its first tick: it goes from start-up to the exit
\* and stays there, no tick runs, the pipeline writes nothing to the store
\* and no question is answered.
Untouched ==
  /\ cleaned = <<>> /\ chunks = <<>>
  /\ \A r \in 1..Len(raw) : ~raw[r].processed /\ raw[r].lastProcessedAt = NULL
  /\ processedCount = [cleaned |-> 0, chunked |-> 0, embedded |-> 0]
  /\ ~answer.asked /\ search = NoSearch

C27_MissingKeyIsFatal ==
  /\ []((ConstructorThrows /\ pc # "off") =>
          /\ pc \in {"boot", "api_boot", "exit_1"}
          /\ Untouched)
  /\ [][/\ (ConstructorThrows /\ pc # "off" /\ pc' # pc) => pc' = "exit_1"
        /\ pc = "exit_1" => pc' = "exit_1"]_vars

\* The process has exited with status 1 while the listeners have stored Raw
\* Records that stay unprocessed.
C27_Witness ==
  /\ pc = "exit_1" /\ ConstructorThrows
  /\ raw # <<>>

\* The lines of a file that are headings, in file order.
Headings(lines) == SelectSeq(lines, LAMBDA l : l \in DOMAIN HeaderText)

\* C28: once the Chunker pass that selected it has returned, a markdown
\* Cleaned Record with n >= 1 sections has exactly n Chunks, the j-th with
\* chunkIndex j - 1, of kind markdown_section and with the heading text of
\* the j-th section as headerPath; the sections of the record are the headings
\* of the file in file order, so that a file the Cleaner accepted whose
\* headings are two "## " lines has exactly two such Chunks.
C28_OneChunkPerSection ==
  \A id \in chunkDone :
    (cleaned[id].fileType = "markdown" /\ Len(cleaned[id].sections) >= 1) =>
      LET sections == cleaned[id].sections
          own == ChunksOfRecord(id)
          heads == Headings(raw[cleaned[id].dataId].data.content)
      IN /\ Len(own) = Len(sections)
         /\ \A j \in 1..Len(own) :
              /\ chunks[own[j]].chunkIndex = j - 1
              /\ chunks[own[j]].chunkType = "markdown_section"
              /\ chunks[own[j]].headerPath = sections[j].header
         /\ Len(sections) = Len(heads)
         /\ \A j \in 1..Len(heads) : sections[j].header = HeaderText[heads[j]]

\* A markdown file with the two headings "## Title" and "## Usage", in that
\* order, has been chunked into two Chunks.
C28_Witness ==
  \E id \in chunkDone :
    /\ cleaned[id].fileType = "markdown"
    /\ Headings(raw[cleaned[id].dataId].data.content) = <<"## Title", "## Usage">>
    /\ Len(ChunksOfRecord(id)) = 2
    /\ chunks[ChunksOfRecord(id)[1]].headerPath = "Title"
    /\ chunks[ChunksOfRecord(id)[2]].headerPath = "Usage"

\* C29: when a Chunker pass returns and no write has failed, every Cleaned
\* Record that has a Chunk has its complete chunk sequence, also when the
\* process was killed before and started again.
C29_ChunkSetComplete ==
  (failures = 0 /\ pc = "return" /\ stage = "chunk") =>
    \A id \in 1..Len(cleaned) :
      ChunksOfRecord(id) # <<>> =>
        Len(ChunksOfRecord(id)) = Len(ChunksOf(cleaned[id]))

\* A Raw Record is waiting whose Cleaned Record cannot be written: the create
\* rejects whenever the Cleaner comes to it, on every tick.
CleanerThrows ==
  \E j \in SeqToSet(CleanEligible) :
    /\ Clean(raw[j]) # <<>>
    /\ ParseDate(Clean(raw[j])[1].timestamp) = InvalidDate

\* C30: if from some tick on the Cleaner throws on every tick, every Cleaned
\* Record without Chunks is nevertheless eventually chunked and every Chunk
\* without a vector is eventually embedded.
C30_LaterStagesProgress ==
  <>[]CleanerThrows =>
    /\ \A id \in 1..MaxRaw :
         (id <= Len(cleaned) /\ ChunksOfRecord(id) = <<>>)
           ~> (id <= Len(cleaned) /\ ChunksOfRecord(id) # <<>>)
    /\ \A c \in ChunkIds :
         (c <= Len(chunks) /\ chunks[c].embeddedAt = NULL)
           ~> (c <= Len(chunks) /\ chunks[c].embeddedAt # NULL)

\* C31: when the Cleaner is invoked with limit 1 again and again, every
\* Raw Record it accepts that is unprocessed and not deleted eventually has a
\* Cleaned Record, unless it is deleted first, whatever rejected Raw Records
\* were created before it.
C31_LimitedCleanerReachesAll ==
  \A r \in 1..MaxRaw :
    (r <= Len(raw) /\ Accepts(r) /\ ~raw[r].processed /\ raw[r].deletedAt = NULL)
      ~> (r <= Len(raw) /\ (raw[r].deletedAt # NULL \/ CleanedFor(r) # {}))

\* chunk.content.length
BodyLen(c) ==
  IF chunks[c].source = "Discord"
  THEN JoinLen(MapSeq(chunks[c].content, WordLen), 1)
  ELSE TextLen(chunks[c].content)

\* C32: the context string of every Chunk holds the Chunk's body in full,
\* whatever the kind of the Chunk and the length of the body.
C32_ContextHoldsWholeBody ==
  \A c \in 1..Len(chunks) :
    /\ chunks[c].contextMetadata.text = chunks[c].content
    /\ chunks[c].contextMetadata.kept = BodyLen(c)

\* C33: in every state a Chunk has a vector exactly when it has embeddedAt,
\* so the Chunks the Embedding Writer would select and the Chunks a search
\* without source filter may return are disjoint and together are all Chunks.
C33_SelectionsSplitChunks ==
  /\ \A c \in 1..Len(chunks) :
       (chunks[c].embedding # <<>>) <=> (chunks[c].embeddedAt # NULL)
  /\ SeqToSet(EmbedEligible) \cap SeqToSet(SearchEligible(NULL)) = {}
  /\ SeqToSet(EmbedEligible) \cup SeqToSet(SearchEligible(NULL)) = 1..Len(chunks)

\* The Embedding Writer stands inside its write loop, or was stopped there:
\* some Chunks have their vector and some do not.
C33_Witness ==
  /\ EmbedEligible # <<>>
  /\ SearchEligible(NULL) # <<>>
  /\ failures + crashes > 0

\* C34: the vector stored with a Chunk is the one the provider returns for
\* that Chunk's context string in the document role, also for the Chunks
\* embedded in a second provider sub-batch.
C34_VectorOfOwnContext ==
  \A c \in 1..Len(chunks) :
    chunks[c].embedding # <<>> =>
      chunks[c].embedding =
        <<Embedding(chunks[c].contextMetadata, "RETRIEVAL_DOCUMENT")>>

\* A Chunk of the second sub-batch has its vector, and its context string is
\* not the one of the Chunk at the same place of the first sub-batch.
C34_Witness ==
  \E c \in (EMBED_BATCH_SIZE + 1)..Len(chunks) :
    /\ chunks[c].embedding # <<>>
    /\ chunks[c].contextMetadata # chunks[c - EMBED_BATCH_SIZE].contextMetadata

\* C35: whenever the loop sleeps between two ticks, the totals of a process
\* that was never killed are the numbers of Cleaned Records in the store, of
\* Cleaned Records that have Chunks and of Chunks that have a vector, also
\* after a tick in which a stage threw.
C35_TotalsMatchStore ==
  (pc = "sleep" /\ crashes = 0) =>
    /\ processedCount.cleaned = Len(cleaned)
    /\ processedCount.chunked =
         Cardinality({id \in 1..Len(cleaned) : ChunksOfRecord(id) # <<>>})
    /\ processedCount.embedded =
         Cardinality({c \in 1..Len(chunks) : chunks[c].embeddedAt # NULL})

\* The Chunk was not closed by the forced split of chunkCodeFile.
NotForced(c) ==
  \/ chunks[c].tokenCount <= MAX_CHUNK_TOKENS
  \/ Len(chunks[c].content) <= MIN_SPLIT_LINES

\* C36: a Chunk of a code file that was not closed by the forced split is a
\* function block, named after a declaration, exactly when one of its lines
\* is a declaration, and a generic block without a name otherwise; so the
\* lines before the first declaration of a file are a generic block.
C36_FunctionBlockHasDeclaration ==
  \A c \in 1..Len(chunks) :
    (cleaned[chunks[c].cleanedDataId].isCode /\ NotForced(c)) =>
      IF \E j \in 1..Len(chunks[c].content) : chunks[c].content[j] = "function f"
      THEN chunks[c].chunkType = "code_function"
           /\ chunks[c].functionName = "function f"
      ELSE chunks[c].chunkType = "code_block"
           /\ chunks[c].functionName = NULL

\* C37: a repository file that is neither code nor markdown with sections,
\* whose paragraphs together have at most 800 estimated tokens, has exactly
\* one Chunk once the Chunker pass that selected it has returned.
C37_SmallTextIsOneChunk ==
  \A id \in chunkDone :
    LET record == cleaned[id]
        paragraphs == Paragraphs(record.cleanedContent, <<>>)
    IN (/\ record.source = "Github"
        /\ ~record.isCode
        /\ record.sections = <<>>
        /\ paragraphs # <<>>
        /\ estimateTokens(TextLen(JoinParas(paragraphs))) <= MAX_CHUNK_TOKENS)
         => Len(ChunksOfRecord(id)) = 1

\* C38: once the Chunker pass that selected it has returned, a chat Cleaned
\* Record with k code fragments has exactly 1 + k Chunks: the first has index
\* 0, is a message chunk, holds the whole cleaned body and has the author as
\* its only participant; the next k have the indices 1..k, are code-fragment
\* chunks and hold the fragments in the order they stand in the message.
C38_MessageThenFragments ==
  \A id \in chunkDone :
    cleaned[id].source = "Discord" =>
      LET record == cleaned[id]
          own == ChunksOfRecord(id)
          k == Len(record.codeBlocks)
          fences == FilterSeq(raw[record.dataId].data.content, DOMAIN stripFence)
      IN /\ Len(own) = 1 + k
         /\ chunks[own[1]].chunkIndex = 0
         /\ chunks[own[1]].chunkType = "discord_message"
         /\ chunks[own[1]].content = record.cleanedContent
         /\ chunks[own[1]].participants = <<record.username>>
         /\ k = Len(fences)
         /\ \A j \in 1..k :
              /\ chunks[own[1 + j]].chunkIndex = j
              /\ chunks[own[1 + j]].chunkType = "discord_code_block"
              /\ chunks[own[1 + j]].content = <<record.codeBlocks[j]>>
              /\ record.codeBlocks[j] = stripFence[fences[j]]

\* A message with two different code fragments has been chunked into three
\* Chunks.
C38_Witness ==
  \E id \in chunkDone :
    /\ cleaned[id].source = "Discord"
    /\ cleaned[id].codeBlocks = <<"print", "code">>
    /\ Len(ChunksOfRecord(id)) = 3
    /\ chunks[ChunksOfRecord(id)[2]].content = <<"print">>
    /\ chunks[ChunksOfRecord(id)[3]].content = <<"code">>

\* A heading line stands for its heading text, whether written "## Title" in
\* the file or "# Title" in the Chunk.
TextOf(l) ==
  IF l \in DOMAIN HeaderText THEN HeaderText[l]
  ELSE IF \E h \in DOMAIN HeadingLine : HeadingLine[h] = l
       THEN CHOOSE h \in DOMAIN HeadingLine : HeadingLine[h] = l
       ELSE l

\* The non-blank lines of a text, in order.
NonBlank(lines) ==
  LET kept == SelectSeq(lines, LAMBDA l : ~IsBlank(l))
  IN [j \in 1..Len(kept) |-> TextOf(kept[j])]

\* The non-blank lines of the Chunks own[j..], in the order of the Chunks.
RECURSIVE ChunkLines(_, _)
ChunkLines(own, j) ==
  IF j > Len(own) THEN <<>>
  ELSE NonBlank(chunks[own[j]].content) \o ChunkLines(own, j + 1)

\* C39: once the Chunker pass that selected it has returned, the non-blank
\* lines of the Chunks of a repository file, taken in the order of the Chunks,
\* are the non-blank lines of its cleaned body: each line of the body is in
\* exactly one Chunk and the Chunks follow the body.
C39_NoLineLost ==
  \A id \in chunkDone :
    cleaned[id].source = "Github" =>
      ChunkLines(ChunksOfRecord(id), 1) = NonBlank(cleaned[id].cleanedContent)

\* estimateTokens(lines.join("\n")) > 800 && lines.length > 10
TooLarge(lines) ==
  /\ estimateTokens(TextLen(lines)) > MAX_CHUNK_TOKENS
  /\ Len(lines) > MIN_SPLIT_LINES

\* The Chunks of the code files, each with the Chunk that follows it in the
\* same file.
CodeChunks == {c \in 1..Len(chunks) : cleaned[chunks[c].cleanedDataId].isCode}

FollowedBy(c, d) ==
  /\ c \in CodeChunks /\ d \in CodeChunks
  /\ chunks[c].cleanedDataId = chunks[d].cleanedDataId
  /\ chunks[d].chunkIndex = chunks[c].chunkIndex + 1

\* C40: a code Chunk of more than 800 estimated tokens and more than 10 lines
\* is a generic block whose lines without the last one are not yet that
\* large, so it was closed right after the line that made it so; and a Chunk
\* that was closed neither by a declaration nor by the end of the file has
\* more than 10 lines and more than 800 estimated tokens.
C40_ForcedSplitAtFirstExcess ==
  /\ \A c \in CodeChunks :
       TooLarge(chunks[c].content) =>
         /\ chunks[c].chunkType = "code_block"
         /\ ~TooLarge(SubSeq(chunks[c].content, 1, Len(chunks[c].content) - 1))
  /\ \A c, d \in CodeChunks :
       (FollowedBy(c, d) /\ chunks[d].content[1] # "function f") =>
         TooLarge(chunks[c].content)

\* A Chunk whose first line alone has more than 800 estimated tokens was
\* closed by the forced split with exactly 11 lines, and the file went on.
C40_Witness ==
  \E c, d \in CodeChunks :
    /\ FollowedBy(c, d)
    /\ chunks[d].content[1] # "function f"
    /\ Len(chunks[c].content) = MIN_SPLIT_LINES + 1
    /\ estimateTokens(LineLen[chunks[c].content[1]]) > MAX_CHUNK_TOKENS

====
